---- MODULE Spec2Model ----
(***************************************************************************)
(* A model of the TCD1304DG linear-image-sensor reader firmware            *)
(* (tcd1304_reader.c, v0.3): the line reader getstr, the main loop and the *)
(* command interpreter interpret_command, with the serial host, the ICG    *)
(* line, the ADC with its FIFO, the microsecond timer and the I2C bus as   *)
(* the environment.                                                        *)
(*                                                                         *)
(* A character is a one-character string; the control characters have      *)
(* names (NL, CR, BS, NUL).  A C string is a sequence of characters.        *)
(* The firmware is one thread; pc is the place it has reached.             *)
(***************************************************************************)
EXTENDS Integers, Sequences, FiniteSets, TLC

VARIABLES
    pc,            \* where the thread is: "getstr", "main_if", "switch",
                   \* "b_wait_low", "b_wait_high", "b_capture", "done"
    inp,           \* characters the host has sent and getc has not yet returned
    bufA,          \* bufA[0..i-1] while a line is read; then the line, up to its terminator
    override_led,  \* the global override_led
    led,           \* the level driven on LED_PIN
    icg,           \* the level on ICG_PIN (driven by the sensor driver board)
    adc_samples,   \* the global adc_samples: element j of the array is adc_samples[j + 1]
    fifo,          \* the ADC result FIFO
    adc_running,   \* the ADC is free-running (adc_run(true))
    signal,        \* which analog signal the ADC converts while free-running
    nconv,         \* conversions started since adc_run(true)
    cap_i,         \* adc_capture's loop index i
    start,         \* case 'b': the local start, a 32-bit timer value
    msg_bytes,     \* the global msg_bytes: byte k of the array is msg_bytes[k + 1]
    out,           \* the lines printf has written during the current command
    bus,           \* the I2C writes issued during the current command
    steps,         \* the hardware calls made during the current command, in order
    owed,          \* lines of length > 0 read by main and not yet handed to interpret_command
    mean,          \* case 'b': the local mean, a float
    stddev         \* case 'b': the local stddev, a float

vars == <<pc, inp, bufA, override_led, led, icg, adc_samples, fifo, adc_running,
          signal, nconv, cap_i, start, msg_bytes, out, bus, steps, owed, mean, stddev>>

---------------------------------------------------------------------------
(* Program constants *)

N_SAMPLES == 3800
NBUFA == 80
I2C_ADDR == 81              \* 0x51
I2C_NBYTES == 4

FifoDepth == 8              \* entries the ADC FIFO of the RP2350 holds before it drops results

(* Bounds of the model *)

MaxStale == 2               \* the host sends no a while this many results wait in the FIFO
MaxTyped == 3               \* the length up to which every line over GetstrChars is typed

---------------------------------------------------------------------------
(* Characters and text *)

NL == "\n"
CR == "\r"
BS == "\\b"
NUL == "\\0"

\* F(v), with v evaluated once, whatever the context F(v) is evaluated in
With(v, F(_)) == CHOOSE r \in { F(x) : x \in {v} } : TRUE

(* Single-precision arithmetic (IEEE 754 binary32, round to nearest, ties to
   even), as the float operations of case 'b' are carried out.  A float is
   [m, e]: the value m * 2^e, with m = 0 or 2^23 <= |m| < 2^24.  All values of
   case 'b' are far from the ends of the exponent range. *)

Pow2(k) == 2 ^ k

F_ONE == 8388608             \* 2^23: the least mantissa of a float that is not zero
F_TWO == 16777216            \* 2^24

f_zero == [m |-> 0, e |-> 0]

BitLen8 == [k \in 0..255 |-> IF k = 0 THEN 0
                             ELSE CHOOSE b \in 1..8 : Pow2(b - 1) <= k /\ k < Pow2(b)]

\* the number of bits of x, 0 <= x < 2^31
BitLen(x) ==
    IF x < 65536
    THEN (IF x < 256 THEN BitLen8[x] ELSE 8 + BitLen8[x \div 256])
    ELSE (IF x < 16777216 THEN 16 + BitLen8[x \div 65536] ELSE 24 + BitLen8[x \div 16777216])

\* the float of magnitude M * 2^e after rounding, where F_ONE <= M < F_TWO and
\* the part dropped below M is a/(2b) of a unit: up when above a half, or at a
\* half with M odd
f_round(M, a, b, e) ==
    LET R == IF a > b \/ (a = b /\ M % 2 = 1) THEN M + 1 ELSE M
    IN  IF R = F_TWO THEN [m |-> F_ONE, e |-> e + 1] ELSE [m |-> R, e |-> e]

\* the float nearest to the integer k * 2^e, 0 <= k < 2^31
f_of(k, e) ==
    IF k = 0 THEN f_zero
    ELSE LET bl == BitLen(k)
         IN  IF bl <= 24 THEN [m |-> k * Pow2(24 - bl), e |-> e + bl - 24]
             ELSE LET sh == Pow2(bl - 24)
                  IN  f_round(k \div sh, 2 * (k % sh), sh, e + bl - 24)

\* (float) of an unsigned integer
f_from_uint(k) == f_of(k, 0)

f_neg(x) == [m |-> 0 - x.m, e |-> x.e]

f_abs(x) == IF x.m < 0 THEN f_neg(x) ELSE x

\* x < y for floats that are not negative
f_less_mag(x, y) ==
    IF x.m = 0 THEN y.m # 0
    ELSE IF y.m = 0 THEN FALSE
    ELSE x.e < y.e \/ (x.e = y.e /\ x.m < y.m)

\* big + small for floats with big >= small > 0
f_add_mag(big, small) ==
    LET d == big.e - small.e
    IN  IF d >= 25 THEN big
        ELSE LET p == Pow2(d)
                 s == big.m + (small.m \div p)
                 r == small.m % p
             IN  IF s < F_TWO THEN f_round(s, 2 * r, p, big.e)
                 ELSE f_round(s \div 2, (s % 2) * p + r, p, big.e + 1)

\* big - small for floats with big > small > 0
f_sub_mag(big, small) ==
    LET d == big.e - small.e
    IN  IF d >= 26 THEN big
        ELSE IF d <= 1 THEN f_of(big.m * Pow2(d) - small.m, small.e)
        ELSE LET p == Pow2(d)
                 q == small.m \div p
                 r == small.m % p
                 T == big.m - q
             IN  IF r = 0 THEN f_of(T, big.e)
                 ELSE IF T - 1 >= F_ONE THEN f_round(T - 1, 2 * (p - r), p, big.e)
                 ELSE LET g == p - r
                          h == p \div 2
                          bit == IF g >= h THEN 1 ELSE 0
                      IN  f_round(2 * (T - 1) + bit, 2 * (g - bit * h), h, big.e - 1)

\* x + y
f_add(x, y) ==
    IF x.m = 0 THEN y
    ELSE IF y.m = 0 THEN x
    ELSE LET ax == f_abs(x)
             ay == f_abs(y)
             big == IF f_less_mag(ax, ay) THEN ay ELSE ax
             small == IF f_less_mag(ax, ay) THEN ax ELSE ay
             neg == IF f_less_mag(ax, ay) THEN y.m < 0 ELSE x.m < 0
             r == IF (x.m < 0) = (y.m < 0) THEN f_add_mag(big, small)
                  ELSE IF big = small THEN f_zero
                  ELSE f_sub_mag(big, small)
         IN  IF neg THEN f_neg(r) ELSE r

\* x - y
f_sub(x, y) == f_add(x, f_neg(y))

\* x * y: the 48-bit product of the mantissas is formed from 12-bit halves
f_mul(x, y) ==
    IF x.m = 0 \/ y.m = 0 THEN f_zero
    ELSE LET a == f_abs(x).m
             b == f_abs(y).m
             a1 == a \div 4096
             a0 == a % 4096
             b1 == b \div 4096
             b0 == b % 4096
             mid == a1 * b0 + a0 * b1
             low == a0 * b0 + (mid % 4096) * 4096
             L == low % F_TWO
             H == a1 * b1 + (mid \div 4096) + (low \div F_TWO)
             e == x.e + y.e
             r == IF H >= F_ONE THEN f_round(H, L, F_ONE, e + 24)
                  ELSE f_round(2 * H + (L \div F_ONE), 2 * (L % F_ONE), F_ONE, e + 23)
         IN  IF (x.m < 0) = (y.m < 0) THEN r ELSE f_neg(r)

\* the quotient bits of R / d after Q, until Q has 24 bits
RECURSIVE f_div_bits(_, _, _, _)
f_div_bits(Q, R, d, e) ==
    IF Q >= F_ONE THEN f_round(Q, 2 * R, d, e)
    ELSE LET R2 == 2 * R
         IN  IF R2 >= d THEN f_div_bits(2 * Q + 1, R2 - d, d, e - 1)
             ELSE f_div_bits(2 * Q, R2, d, e - 1)

\* x / y, y # 0
f_div(x, y) ==
    IF x.m = 0 THEN f_zero
    ELSE LET a == f_abs(x).m
             b == f_abs(y).m
             r == f_div_bits(a \div b, a % b, b, x.e - y.e)
         IN  IF (x.m < 0) = (y.m < 0) THEN r ELSE f_neg(r)

\* the square root of the 48-bit number hi * 2^24 + lo, two bits at a step:
\* k pairs of bits are still to come
RECURSIVE f_sqrt_bits(_, _, _, _, _)
f_sqrt_bits(hi, lo, k, root, rem) ==
    IF k = 0 THEN [root |-> root, rem |-> rem]
    ELSE LET pair == IF k > 12 THEN (hi \div Pow2(2 * (k - 13))) % 4
                     ELSE (lo \div Pow2(2 * (k - 1))) % 4
             r4 == 4 * rem + pair
             t == 4 * root + 1
         IN  IF r4 >= t THEN f_sqrt_bits(hi, lo, k - 1, 2 * root + 1, r4 - t)
             ELSE f_sqrt_bits(hi, lo, k - 1, 2 * root, r4)

\* (float) sqrt((double) x), x >= 0.  The double result of sqrt is correctly
\* rounded, and no square root of a float is near enough to the middle between
\* two floats for the second rounding to change the result: it is the float
\* nearest to the root.
f_sqrt(x) ==
    IF x.m = 0 THEN f_zero
    ELSE LET odd == (x.e % 2) = 1
             hi == IF odd THEN x.m \div 2 ELSE x.m
             lo == IF odd THEN (x.m % 2) * F_ONE ELSE 0
             h == IF odd THEN (x.e - 23) \div 2 ELSE (x.e - 24) \div 2
             s == f_sqrt_bits(hi, lo, 24, 0, 0)
         IN  f_round(s.root, IF s.rem > s.root THEN 2 ELSE 0, 1, h)

(* Whole numbers below 2^96, for the fused multiply-add: four 24-bit limbs,
   lowest first. *)

\* w * 2^r, 0 <= r < 24
W_shl_bits(w, r) ==
    [i \in 1..4 |-> (w[i] % Pow2(24 - r)) * Pow2(r)
                    + (IF i > 1 THEN w[i - 1] \div Pow2(24 - r) ELSE 0)] \o <<>>

\* w * 2^s, which is below 2^96
W_shl(w, s) ==
    With(W_shl_bits(w, s % 24), LAMBDA b :
        [i \in 1..4 |-> IF i - (s \div 24) >= 1 THEN b[i - (s \div 24)] ELSE 0] \o <<>>)

\* w \div 2^s
W_shr(w, s) ==
    With([i \in 1..4 |-> IF i + (s \div 24) <= 4 THEN w[i + (s \div 24)] ELSE 0] \o <<>>,
         LAMBDA c :
            [i \in 1..4 |-> (c[i] \div Pow2(s % 24))
                            + (IF i < 4 THEN (c[i + 1] % Pow2(s % 24)) * Pow2(24 - (s % 24))
                               ELSE 0)] \o <<>>)

\* a + b, which is below 2^96
W_add(a, b) ==
    LET s1 == a[1] + b[1]
        s2 == a[2] + b[2] + (s1 \div F_TWO)
        s3 == a[3] + b[3] + (s2 \div F_TWO)
        s4 == a[4] + b[4] + (s3 \div F_TWO)
    IN  <<s1 % F_TWO, s2 % F_TWO, s3 % F_TWO, s4>>

\* a - b, a >= b
W_sub(a, b) ==
    LET d1 == a[1] - b[1]
        d2 == a[2] - b[2] + (d1 \div F_TWO)
        d3 == a[3] - b[3] + (d2 \div F_TWO)
        d4 == a[4] - b[4] + (d3 \div F_TWO)
    IN  <<d1 % F_TWO, d2 % F_TWO, d3 % F_TWO, d4>>

\* a < b
W_less(a, b) ==
    IF a[4] # b[4] THEN a[4] < b[4]
    ELSE IF a[3] # b[3] THEN a[3] < b[3]
    ELSE IF a[2] # b[2] THEN a[2] < b[2]
    ELSE a[1] < b[1]

\* the number of bits of w
W_bitlen(w) ==
    IF w[4] # 0 THEN 72 + BitLen(w[4])
    ELSE IF w[3] # 0 THEN 48 + BitLen(w[3])
    ELSE IF w[2] # 0 THEN 24 + BitLen(w[2])
    ELSE BitLen(w[1])

\* the float nearest to w * 2^e, rounded once
W_round(w, e) ==
    With(W_bitlen(w), LAMBDA n :
        IF n <= 24 THEN f_of(w[1], e)
        ELSE With(W_shr(w, n - 25), LAMBDA top :
                f_round(W_shr(w, n - 24)[1],
                        IF top[1] % 2 = 0 THEN 0
                        ELSE IF W_shl(top, n - 25) # w THEN 2 ELSE 1,
                        1, e + n - 24)))

\* fmaf(x, y, z): x * y + z with the exact product, rounded once.  The product
\* of the mantissas has 47 or 48 bits; z is placed against it at the lower
\* of the two exponents.  A z whose bits all lie more than a bit below the
\* product's last bit acts on the rounding as a quarter of that last bit; a
\* product wholly more than a bit below the last bit of z leaves z.
f_fma(x, y, z) ==
    IF x.m = 0 \/ y.m = 0 THEN z
    ELSE IF z.m = 0 THEN f_mul(x, y)
    ELSE LET a == f_abs(x).m
             b == f_abs(y).m
             a1 == a \div 4096
             a0 == a % 4096
             b1 == b \div 4096
             b0 == b % 4096
             mid == a1 * b0 + a0 * b1
             low == a0 * b0 + (mid % 4096) * 4096
             P == << low % F_TWO, a1 * b1 + (mid \div 4096) + (low \div F_TWO), 0, 0 >>
             C == << f_abs(z).m, 0, 0, 0 >>
             pneg == (x.m < 0) # (y.m < 0)
             zneg == z.m < 0
             ep == x.e + y.e
             d == z.e - ep
         IN  IF d >= 50 THEN z
             ELSE With(IF d >= 0 THEN << P, W_shl(C, d), ep >>
                       ELSE IF d >= 0 - 25 THEN << W_shl(P, 0 - d), C, z.e >>
                       ELSE << W_shl(P, 2), <<1, 0, 0, 0>>, ep - 2 >>,
                       LAMBDA t :
                         IF pneg = zneg
                         THEN (IF pneg THEN f_neg(W_round(W_add(t[1], t[2]), t[3]))
                               ELSE W_round(W_add(t[1], t[2]), t[3]))
                         ELSE IF t[1] = t[2] THEN f_zero
                         ELSE IF W_less(t[1], t[2])
                              THEN (IF zneg THEN f_neg(W_round(W_sub(t[2], t[1]), t[3]))
                                    ELSE W_round(W_sub(t[2], t[1]), t[3]))
                              ELSE (IF pneg THEN f_neg(W_round(W_sub(t[1], t[2]), t[3]))
                                    ELSE W_round(W_sub(t[1], t[2]), t[3])))

Digits == <<"0", "1", "2", "3", "4", "5", "6", "7", "8", "9">>

IsDigit(c) == \E k \in 1..10 : Digits[k] = c

DigitVal(c) == (CHOOSE k \in 1..10 : Digits[k] = c) - 1

\* the characters isspace() accepts in the C locale; atoi skips these before the sign
SpaceChars == {" ", "\t", NL, CR, "\f", "\\v"}

\* printf's %u and %d of a value that is not negative
RECURSIVE Fmt_u(_)
Fmt_u(n) == IF n < 10 THEN <<Digits[n + 1]>>
            ELSE Fmt_u(n \div 10) \o <<Digits[(n % 10) + 1]>>

Drop(s, k) == SubSeq(s, k + 1, Len(s))

\* the C string that starts at s[1]: the characters before the first NUL
CStr(s) == IF \E k \in 1..Len(s) : s[k] = NUL
           THEN SubSeq(s, 1, (CHOOSE k \in 1..Len(s) :
                                 s[k] = NUL /\ \A j \in 1..(k - 1) : s[j] # NUL) - 1)
           ELSE s

\* strspn and strcspn: the length of the longest prefix of s made of characters
\* in S, and of characters not in S
RECURSIVE strspn(_, _)
strspn(s, S) == IF s = <<>> \/ Head(s) \notin S THEN 0 ELSE 1 + strspn(Tail(s), S)

RECURSIVE strcspn(_, _)
strcspn(s, S) == IF s = <<>> \/ Head(s) \in S THEN 0 ELSE 1 + strcspn(Tail(s), S)

INT_MAX == 2147483647
INT_MIN == (0 - INT_MAX) - 1

DigitChars == { Digits[k] : k \in 1..10 }

\* the number the digits d write, modulo 10^9
RECURSIVE DigitsValue(_, _)
DigitsValue(d, acc) ==
    IF d = <<>> THEN acc
    ELSE With(10 * (acc % 100000000) + DigitVal(Head(d)),
              LAMBDA next : DigitsValue(Tail(d), next))

\* the number the digits d write, modulo 2^32, as <<high half, low half>>
RECURSIVE DigitsWrap32(_, _)
DigitsWrap32(d, acc) ==
    IF d = <<>> THEN acc
    ELSE With(10 * acc[2] + DigitVal(Head(d)), LAMBDA lo :
            With(<< (10 * acc[1] + (lo \div 65536)) % 65536, lo % 65536 >>,
                 LAMBDA next : DigitsWrap32(Tail(d), next)))

\* the int with the bits of the 32-bit number w, or of -w
int_of_bits(w, negated) ==
    LET lo == IF negated THEN (65536 - w[2]) % 65536 ELSE w[2]
        hi == IF negated THEN (65535 - w[1] + (IF w[2] = 0 THEN 1 ELSE 0)) % 65536 ELSE w[1]
    IN  IF hi >= 32768 THEN (hi - 65536) * 65536 + lo ELSE hi * 65536 + lo

\* the digits z (no leading zero) write a number of at most max9 * 10 + last,
\* where max9 has 9 digits
AtMost10(z, max9, last) ==
    \/ Len(z) <= 9
    \/ /\ Len(z) = 10
       /\ LET hi9 == DigitsValue(SubSeq(z, 1, 9), 0)
          IN  hi9 < max9 \/ (hi9 = max9 /\ DigitVal(z[10]) <= last)

\* the digits z (no leading zero) write a number of at most 2^63 - 1, or 2^63
\* after a minus sign: what a 64-bit long holds
FitsLong64(z, neg) ==
    \/ Len(z) <= 18
    \/ /\ Len(z) = 19
       /\ LET a == DigitsValue(SubSeq(z, 1, 9), 0)
              b == DigitsValue(SubSeq(z, 10, 18), 0)
              c == DigitVal(z[19])
          IN  \/ a < 922337203
              \/ a = 922337203 /\ b < 685477580
              \/ a = 922337203 /\ b = 685477580 /\ c <= (IF neg THEN 8 ELSE 7)

\* atoi of digits whose number does not fit an int, which C leaves undefined.
\* The results are those of (int) strtol(s, NULL, 10) in the C libraries the
\* firmware is built with: with a 32-bit long strtol gives LONG_MAX or
\* LONG_MIN; with a 64-bit long the conversion to int keeps the low 32 bits
\* of the long, which is the number or, beyond 64 bits, LONG_MAX or LONG_MIN.
atoi_overflow(z, neg) ==
    { IF neg THEN INT_MIN ELSE INT_MAX,
      IF FitsLong64(z, neg) THEN int_of_bits(DigitsWrap32(z, <<0, 0>>), neg)
      ELSE IF neg THEN 0 ELSE 0 - 1 }

\* atoi: white space (t is what follows it), an optional sign (u follows it),
\* then digits up to the first other character (z: the digits after leading
\* zeros); no digits gives 0.  The value is the set of the results atoi can
\* give: one result, but for a number that does not fit an int.
atoi(s) ==
    With(Drop(s, strspn(s, SpaceChars)), LAMBDA t :
        With(IF t # <<>> /\ Head(t) \in {"-", "+"} THEN Tail(t) ELSE t, LAMBDA u :
            With(Drop(SubSeq(u, 1, strspn(u, DigitChars)),
                      strspn(SubSeq(u, 1, strspn(u, DigitChars)), {"0"})), LAMBDA z :
                With(t # <<>> /\ Head(t) = "-", LAMBDA neg :
                    IF AtMost10(z, 214748364, IF neg THEN 8 ELSE 7)
                    THEN With(DigitsValue(SubSeq(z, 1, Len(z) - 1), 0), LAMBDA hi :
                            With(IF z = <<>> THEN 0 ELSE DigitVal(z[Len(z)]), LAMBDA last :
                                { IF neg THEN (0 - 10 * hi) - last ELSE 10 * hi + last }))
                    ELSE atoi_overflow(z, neg)))))

sep_tok == {",", " "}

\* strtok(str, sep_tok) on the C string s.  tok is the token found (<<>>: NULL),
\* rest is the string a later strtok(NULL, sep_tok) scans, and cut is the index
\* in s where strtok wrote a NUL over the delimiter that ended the token (0: none)
strtok(s) ==
    With(strspn(s, sep_tok), LAMBDA lead :
        With(Drop(s, lead), LAMBDA body :
            With(strcspn(body, sep_tok), LAMBDA n :
                [tok  |-> SubSeq(body, 1, n),
                 rest |-> Drop(body, n + 1),
                 cut  |-> IF n > 0 /\ lead + n < Len(s) THEN lead + n + 1 ELSE 0])))

\* the text t occurs in the line s
Contains(s, t) == \E k \in 0..(Len(s) - Len(t)) : SubSeq(s, k + 1, k + Len(t)) = t

VERSION_STR == <<"v", "0", ".", "3", " ", "2", "0", "2", "5", "-", "0", "1", "-", "0", "8",
                 " ", "T", "C", "D", "1", "3", "0", "4", "D", "G", " ",
                 "l", "i", "n", "e", "a", "r", "-", "i", "m", "a", "g", "e", "-",
                 "s", "e", "n", "s", "o", "r", " ", "r", "e", "a", "d", "e", "r">>

ErrUnknown == <<" ", "e", "r", "r", "o", "r", ":", " ", "U", "n", "k", "n", "o", "w", "n",
                " ", "c", "o", "m", "m", "a", "n", "d">>

ErrLNoValue == <<"L", " ", "e", "r", "r", "o", "r", ":", " ", "n", "o", " ",
                 "v", "a", "l", "u", "e">>

ErrPNoSH == <<"p", " ", "e", "r", "r", "o", "r", ":", " ", "n", "o", " ", "v", "a", "l", "u", "e",
              " ", "f", "o", "r", " ", "u", "s", "_", "S", "H", " ",
              "(", "n", "o", "r", " ", "u", "s", "_", "I", "C", "G", ")">>

\* a message that does not say which value is missing
ErrPNoValue == <<"p", " ", "e", "r", "r", "o", "r", ":", " ", "n", "o", " ", "v", "a", "l", "u", "e">>

ErrPNoICG == <<"p", " ", "e", "r", "r", "o", "r", ":", " ", "n", "o", " ", "v", "a", "l", "u", "e",
               " ", "f", "o", "r", " ", "u", "s", "_", "I", "C", "G">>

\* a report of the failed write that does not say "error"
ErrPI2C_plain == <<"p", " ", "f", "a", "i", "l", "e", "d">>

ErrPI2C == <<"p", " ", "e", "r", "r", "o", "r", ":", " ", "u", "n", "s", "u", "c", "c", "e", "s",
             "s", "f", "u", "l", " ", "I", "2", "C", " ",
             "c", "o", "m", "m", "u", "n", "i", "c", "a", "t", "i", "o", "n">>

---------------------------------------------------------------------------
(* The environment's inputs *)

\* the command lines the host sends, each followed by NL
HostLines ==
    { <<>>, <<CR>>, <<"b", BS>>,
      <<"v">>, <<"v", BS, "z">>, <<"x">>, <<" ", "v">>,
      <<"L">>, <<"L", " ">>, <<"L", " ", "5">>, <<"L", "4">>, <<"L", ",", "x">>,
      <<"L", " ", "-", "3">>,
      <<"L", " ", "2", "1", "4", "7", "4", "8", "3", "6", "4", "8">>,
      <<"a">>, <<"b">>, <<"r">>, <<"q">>,
      <<"p">>, <<"p", " ", "3", "0", "0">>,
      <<"p", " ", "3", "0", "0", " ", "8", "4", "0", "0">>,
      <<"p", "7", "0", "0", "0", "0", ",", "-", "1", CR>>,
      <<"p", " ", "4", "2", "9", "4", "9", "6", "7", "2", "9", "7", " ", "7">> }

\* the lines the host may send ahead while a command is still running
AheadLines == { <<"v">> }

\* the values a single conversion (adc_read) may give
OneShotLevels == {4095}

\* the analog signals the sensor may present while the ADC free-runs
Signals == {"ramp", "flat"}

\* what the timer may read when a capture starts, as <<high half, low half>>
TimerReads == { <<0, 1000>>, <<65535, 65000>> }

\* the microseconds a capture may take
Durations == {7601, 70000}

\* how many values the ADC may deliver before the pulling loop next has to wait
StallPoints == {1, N_SAMPLES - 1}

\* what i2c_write_blocking may return: the bytes written, or an error code
I2cResults == {4, 2, 0, -1}

---------------------------------------------------------------------------
Init ==
    /\ pc = "getstr"
    /\ inp = <<>>
    /\ bufA = <<>>
    /\ override_led = 0
    /\ led = 0
    /\ icg \in {0, 1}
    /\ adc_samples = [j \in 1..N_SAMPLES |-> 0] \o <<>>
    /\ fifo = <<>>
    /\ adc_running = FALSE
    /\ signal = "none"
    /\ nconv = 0
    /\ cap_i = 0
    /\ start = <<0, 0>>
    /\ msg_bytes = <<0, 0, 0, 0>>
    /\ out = <<>>
    /\ bus = <<>>
    /\ steps = <<>>
    /\ owed = 0
    /\ mean = f_zero
    /\ stddev = f_zero

---------------------------------------------------------------------------
(* The environment *)

\* The host sends a command line.  While a command runs it may send one of
\* AheadLines, which waits in the UART until the firmware reads again.
HostSend(line) ==
    /\ inp = <<>>
    /\ line \in (IF pc = "getstr" THEN HostLines ELSE AheadLines)
    /\ line # <<>> /\ line[1] = "a" => Len(fifo) < MaxStale
    /\ inp' = Append(line, NL)
    /\ UNCHANGED <<pc, bufA, override_led, led, icg, adc_samples, fifo, adc_running,
                   signal, nconv, cap_i, start, msg_bytes, out, bus, steps, owed,
                   mean, stddev>>

\* The driver board moves the ICG line.  Only the two polling loops of the b
\* command read it, so the model lets it move from the dispatch of a b command
\* to the end of its polling: the level at dispatch is either one, and a move
\* anywhere else is not seen before the next such place.
IcgToggle ==
    /\ pc \in {"b_wait_low", "b_wait_high"} \/ (pc = "switch" /\ bufA[1] = "b")
    /\ icg' = 1 - icg
    /\ UNCHANGED <<pc, inp, bufA, override_led, led, adc_samples, fifo, adc_running,
                   signal, nconv, cap_i, start, msg_bytes, out, bus, steps, owed,
                   mean, stddev>>

---------------------------------------------------------------------------
(* getstr and main *)

\* getstr's index i: bufA holds the characters buf[0..i-1]
getstr_i == Len(bufA)

\* a loop body that fills the buffer to its last place
getstr_step_to_the_end(buf, c, nbuf) ==
    IF c # NL /\ c # CR /\ c # BS /\ Len(buf) < nbuf THEN Append(buf, c)
    ELSE IF c = BS /\ Len(buf) > 0 THEN SubSeq(buf, 1, Len(buf) - 1)
    ELSE buf

\* a loop body that takes the carriage return for a normal character
getstr_step_keeps_cr(buf, c, nbuf) ==
    IF c # NL /\ c # BS /\ Len(buf) < nbuf - 1 THEN Append(buf, c)
    ELSE IF c = BS /\ Len(buf) > 0 THEN SubSeq(buf, 1, Len(buf) - 1)
    ELSE buf

\* One turn of getstr's loop on the character c that getc returns.  The three
\* ifs of the loop body exclude one another.
getstr_step(buf, c, nbuf) ==
    IF c # NL /\ c # CR /\ c # BS /\ Len(buf) < nbuf - 1 THEN Append(buf, c)
    ELSE IF c = BS /\ Len(buf) > 0 THEN SubSeq(buf, 1, Len(buf) - 1)
    ELSE buf

\* getstr reads one character; on NL it writes the terminator at buf[i] and
\* returns i
Getc ==
    /\ pc = "getstr"
    /\ inp # <<>>
    /\ LET c == Head(inp) IN
        /\ inp' = Tail(inp)
        /\ bufA' = getstr_step(bufA, c, NBUFA)
        /\ IF c = NL
           THEN /\ pc' = "main_if"
                /\ owed' = IF Len(bufA') > 0 THEN owed + 1 ELSE owed
           ELSE UNCHANGED <<pc, owed>>
    /\ UNCHANGED <<override_led, led, icg, adc_samples, fifo, adc_running,
                   signal, nconv, cap_i, start, msg_bytes, out, bus, steps, mean, stddev>>

\* main's m, once getstr has returned: the count it returned
m == Len(bufA)

\* a main that passes on only lines of two characters or more
has_long_command(count) == count > 1

\* main's test if (m > 0)
has_command(count) == count > 0

\* main: m is 0, nothing is done with the line and getstr is called again
MainSkip ==
    /\ pc = "main_if"
    /\ ~has_command(m)
    /\ pc' = "getstr"
    /\ bufA' = <<>>
    /\ UNCHANGED <<inp, override_led, led, icg, adc_samples, fifo, adc_running,
                   signal, nconv, cap_i, start, msg_bytes, out, bus, steps, owed,
                   mean, stddev>>

\* main: m > 0, interpret_command(bufA) is called; its first statement drives
\* the LED on unless the LED is overridden
MainDispatch ==
    /\ pc = "main_if"
    /\ has_command(m)
    /\ pc' = "switch"
    /\ owed' = owed - 1
    /\ led' = IF override_led = 0 THEN 1 ELSE led
    /\ steps' = IF override_led = 0 THEN <<"gpio_put(LED,1)">> ELSE <<>>
    /\ out' = <<>>
    /\ bus' = <<>>
    /\ UNCHANGED <<inp, bufA, override_led, icg, adc_samples, fifo, adc_running,
                   signal, nconv, cap_i, start, msg_bytes, mean, stddev>>

\* interpret_command has returned: main's loop calls getstr again
MainLoop ==
    /\ pc = "done"
    /\ pc' = "getstr"
    /\ bufA' = <<>>
    /\ out' = <<>>
    /\ bus' = <<>>
    /\ steps' = <<>>
    /\ signal' = "none"
    /\ nconv' = 0
    /\ cap_i' = 0
    /\ start' = <<0, 0>>
    /\ mean' = f_zero
    /\ stddev' = f_zero
    /\ UNCHANGED <<inp, override_led, led, icg, adc_samples, fifo, adc_running,
                   msg_bytes, owed>>

---------------------------------------------------------------------------
(* interpret_command *)

\* cmdStr[0]
cmd0 == bufA[1]

\* the C string at &cmdStr[1]
args == CStr(Tail(bufA))

\* s with a NUL written at index k (0: nothing written)
PutNul(s, k) == IF k = 0 THEN s ELSE [s EXCEPT ![k] = NUL]

\* a last statement that drives the LED off in every case
LedOff(ov, l) == 0

\* the last statement of interpret_command: the LED is driven off unless overridden
LedAtEnd(ov, l) == IF ov = 0 THEN 0 ELSE l

StepsAtEnd(ov, st) == IF ov = 0 THEN Append(st, "gpio_put(LED,0)") ELSE st

\* case 'v'
CmdV ==
    /\ pc = "switch"
    /\ cmd0 = "v"
    /\ out' = Append(out, <<"v", " ">> \o VERSION_STR)
    /\ led' = LedAtEnd(override_led, led)
    /\ steps' = StepsAtEnd(override_led, Append(steps, "printf"))
    /\ pc' = "done"
    /\ UNCHANGED <<inp, bufA, override_led, icg, adc_samples, fifo, adc_running,
                   signal, nconv, cap_i, start, msg_bytes, bus, owed, mean, stddev>>

\* a value that is 1 for every number but 0
L_nonzero(n) == IF n = 0 THEN 0 ELSE 1

\* case 'L': i = (uint8_t) (n & 1), the value the LED and override_led are set to
L_value(n) == n % 2

CmdL ==
    /\ pc = "switch"
    /\ cmd0 = "L"
    /\ \E t \in {strtok(args)} :
        /\ bufA' = <<cmd0>> \o PutNul(Tail(bufA), t.cut)
        /\ IF t.tok # <<>>
           THEN \E i \in { L_value(n) : n \in atoi(t.tok) } :
                /\ override_led' = i
                /\ led' = LedAtEnd(i, i)
                /\ out' = Append(out, <<"L", " ">> \o Fmt_u(i))
                /\ steps' = StepsAtEnd(i, steps \o <<IF i = 1 THEN "gpio_put(LED,1)"
                                                      ELSE "gpio_put(LED,0)", "printf">>)
           ELSE /\ out' = Append(out, ErrLNoValue)
                /\ led' = LedAtEnd(override_led, led)
                /\ steps' = StepsAtEnd(override_led, Append(steps, "printf"))
                /\ UNCHANGED override_led
    /\ pc' = "done"
    /\ UNCHANGED <<inp, icg, adc_samples, fifo, adc_running,
                   signal, nconv, cap_i, start, msg_bytes, bus, owed, mean, stddev>>

\* A conversion result is written to the FIFO (the FIFO is enabled by
\* adc_fifo_setup in main); a full FIFO drops it.
FifoPush(f, v) == IF Len(f) < FifoDepth THEN Append(f, v) ELSE f

\* a response that is the number alone
a_bare(adc_raw) == Fmt_u(adc_raw)

a_response(adc_raw) == <<"a", " ">> \o Fmt_u(adc_raw)

\* an a command that also stores its reading in the first element of the buffer
CmdA_stores ==
    /\ pc = "switch"
    /\ cmd0 = "a"
    /\ \E adc_raw \in OneShotLevels :
        /\ fifo' = FifoPush(fifo, adc_raw)
        /\ out' = Append(out, a_response(adc_raw))
        /\ adc_samples' = [adc_samples EXCEPT ![1] = adc_raw]
    /\ led' = LedAtEnd(override_led, led)
    /\ steps' = StepsAtEnd(override_led, steps \o <<"adc_read", "printf">>)
    /\ pc' = "done"
    /\ UNCHANGED <<inp, bufA, override_led, icg, adc_running,
                   signal, nconv, cap_i, start, msg_bytes, bus, owed, mean, stddev>>

\* case 'a': adc_read makes one conversion and returns its result
CmdA ==
    /\ pc = "switch"
    /\ cmd0 = "a"
    /\ \E adc_raw \in OneShotLevels :
        /\ fifo' = FifoPush(fifo, adc_raw)
        /\ out' = Append(out, a_response(adc_raw))
    /\ led' = LedAtEnd(override_led, led)
    /\ steps' = StepsAtEnd(override_led, steps \o <<"adc_read", "printf">>)
    /\ pc' = "done"
    /\ UNCHANGED <<inp, bufA, override_led, icg, adc_samples, adc_running,
                   signal, nconv, cap_i, start, msg_bytes, bus, owed, mean, stddev>>

\* a report that starts from the last sample
r_lines_reversed(buf) == [j \in 1..N_SAMPLES |-> Fmt_u(buf[N_SAMPLES + 1 - j])]

\* case 'r': one printf("%u\n") for each sample, in index order
r_lines(buf) == [j \in 1..N_SAMPLES |-> Fmt_u(buf[j])]

CmdR ==
    /\ pc = "switch"
    /\ cmd0 = "r"
    /\ out' = out \o r_lines(adc_samples)
    /\ led' = LedAtEnd(override_led, led)
    /\ steps' = StepsAtEnd(override_led, Append(steps, "printf"))
    /\ pc' = "done"
    /\ UNCHANGED <<inp, bufA, override_led, icg, adc_samples, fifo, adc_running,
                   signal, nconv, cap_i, start, msg_bytes, bus, owed, mean, stddev>>

base64_alphabet ==
    <<"A", "B", "C", "D", "E", "F", "G", "H", "I", "J", "K", "L", "M", "N", "O", "P",
      "Q", "R", "S", "T", "U", "V", "W", "X", "Y", "Z", "a", "b", "c", "d", "e", "f",
      "g", "h", "i", "j", "k", "l", "m", "n", "o", "p", "q", "r", "s", "t", "u", "v",
      "w", "x", "y", "z", "0", "1", "2", "3", "4", "5", "6", "7", "8", "9", "+", "/">>

\* a high character taken from the low six bits
q_hi_low_bits(val) == base64_alphabet[(val % 64) + 1]

\* the characters hi and lo of one sample: (val & 0x0FFF) >> 6 and val & 0x003F
q_hi(val) == base64_alphabet[((val % 4096) \div 64) + 1]

q_lo(val) == base64_alphabet[(val % 64) + 1]

\* case 'q': line j (from 0) holds the samples 20*j .. 20*j+19, two characters each
q_line(buf, j) ==
    [c \in 1..40 |-> IF c % 2 = 1 THEN q_hi(buf[j * 20 + ((c - 1) \div 2) + 1])
                                  ELSE q_lo(buf[j * 20 + ((c - 1) \div 2) + 1])] \o <<>>

q_lines(buf) == [j \in 1..(N_SAMPLES \div 20) |-> q_line(buf, j - 1)]

CmdQ ==
    /\ pc = "switch"
    /\ cmd0 = "q"
    /\ out' = out \o q_lines(adc_samples)
    /\ led' = LedAtEnd(override_led, led)
    /\ steps' = StepsAtEnd(override_led, Append(steps, "printf"))
    /\ pc' = "done"
    /\ UNCHANGED <<inp, bufA, override_led, icg, adc_samples, fifo, adc_running,
                   signal, nconv, cap_i, start, msg_bytes, bus, owed, mean, stddev>>

\* (uint16_t) n
to_u16(n) == n % 65536

\* a layout with the low byte of each period first
pack_msg_low_first(us_SH, us_ICG) ==
    << us_SH % 256, us_SH \div 256, us_ICG % 256, us_ICG \div 256 >>

\* the big-endian layout of the two periods in msg_bytes
pack_msg(us_SH, us_ICG) ==
    << us_SH \div 256, us_SH % 256, us_ICG \div 256, us_ICG % 256 >>

\* a test that takes only the error codes for a failure
i2c_negative(nresult) == nresult < 0

\* if (nresult != 4)
i2c_failed(nresult) == nresult # 4

\* case 'p'
CmdP ==
    /\ pc = "switch"
    /\ cmd0 = "p"
    /\ \E t1 \in {strtok(args)} : \E t2 \in {strtok(t1.rest)} :
       \E cut2 \in {IF t2.cut = 0 THEN 0 ELSE (Len(args) - Len(t1.rest)) + t2.cut} :
        IF t1.tok # <<>>
        THEN IF t2.tok # <<>>
             THEN \E us_SH \in { to_u16(n) : n \in atoi(t1.tok) } :
                  \E us_ICG \in { to_u16(n) : n \in atoi(t2.tok) } :
                     /\ bufA' = <<cmd0>> \o PutNul(PutNul(Tail(bufA), t1.cut), cut2)
                     /\ msg_bytes' = pack_msg(us_SH, us_ICG)
                     /\ \E nresult \in I2cResults :
                         /\ bus' = Append(bus, [addr |-> I2C_ADDR, len |-> I2C_NBYTES,
                                               bytes |-> msg_bytes', nresult |-> nresult])
                         /\ out' = Append(out,
                                IF i2c_failed(nresult) THEN ErrPI2C
                                ELSE <<"p", " ">> \o Fmt_u(us_SH) \o <<" ">> \o Fmt_u(us_ICG))
                     /\ steps' = StepsAtEnd(override_led,
                                            steps \o <<"i2c_write_blocking", "printf">>)
             ELSE /\ bufA' = <<cmd0>> \o PutNul(Tail(bufA), t1.cut)
                  /\ out' = Append(out, ErrPNoICG)
                  /\ steps' = StepsAtEnd(override_led, Append(steps, "printf"))
                  /\ UNCHANGED <<msg_bytes, bus>>
        ELSE /\ out' = Append(out, ErrPNoSH)
             /\ steps' = StepsAtEnd(override_led, Append(steps, "printf"))
             /\ UNCHANGED <<bufA, msg_bytes, bus>>
    /\ led' = LedAtEnd(override_led, led)
    /\ pc' = "done"
    /\ UNCHANGED <<inp, override_led, icg, adc_samples, fifo, adc_running,
                   signal, nconv, cap_i, start, owed, mean, stddev>>

---------------------------------------------------------------------------
(* case 'b': the capture *)

\* 32-bit timer values are pairs <<high half, low half>> of 16-bit halves
Add32(t, d) ==
    LET lo == t[2] + (d % 65536)
    IN  << (t[1] + (d \div 65536) + (lo \div 65536)) % 65536, lo % 65536 >>

\* a - b in uint32_t arithmetic
Sub32(a, b) ==
    LET lo == a[2] - b[2]
        borrow == IF lo < 0 THEN 1 ELSE 0
    IN  << (a[1] - b[1] - borrow) % 65536, lo % 65536 >>

\* printf's %u of a 32-bit value
RECURSIVE Fmt_u32(_)
Fmt_u32(t) ==
    With(t, LAMBDA v :
        IF v[1] = 0 THEN Fmt_u(v[2])
        ELSE With((v[1] % 10) * 65536 + v[2], LAMBDA x :
                Fmt_u32(<< v[1] \div 10, x \div 10 >>) \o <<Digits[(x % 10) + 1]>>))

\* the result of the k-th conversion (from 0) of a free run on the signal sig
Sample(sig, k) == IF sig = "ramp" THEN k % 4096 ELSE 2048

\* a free run on each signal: conversion k (from 0) is element k + 1
FreeRun ==
    [ramp |-> [k \in 1..N_SAMPLES |-> Sample("ramp", k - 1)] \o <<>>,
     flat |-> [k \in 1..N_SAMPLES |-> Sample("flat", k - 1)] \o <<>>]

\* the values the next n calls of adc_fifo_get_blocking return, when f is the
\* FIFO and c conversions of the run have been pulled before: what waits in
\* the FIFO comes first, the conversions from c on follow
Pulled(f, sig, c, n) == SubSeq(f \o SubSeq(FreeRun[sig], c + 1, c + n), 1, n)

\* a loop that stops one element short of i1
capture_loop_short(buf, i0, i1, f, sig, c) ==
    SubSeq(buf, 1, i0) \o Pulled(f, sig, c, i1 - i0 - 1) \o SubSeq(buf, i1, Len(buf))

\* adc_capture's loop from index i0 up to, not including, i1: buf[i] takes
\* the i-th value pulled
capture_loop(buf, i0, i1, f, sig, c) ==
    SubSeq(buf, 1, i0) \o Pulled(f, sig, c, i1 - i0) \o SubSeq(buf, i1 + 1, Len(buf))

\* Exact arithmetic, for stating how near the float statistics are to the
\* real ones.  Natural numbers beyond 32 bits are sequences of base-10000
\* digits, lowest first.
BigBase == 100 * 100

RECURSIVE Big(_)
Big(n) == IF n < BigBase THEN <<n>> ELSE <<n % BigBase>> \o Big(n \div BigBase)

RECURSIVE BigAddC(_, _, _)
BigAddC(a, b, c) ==
    IF a = <<>> /\ b = <<>> THEN (IF c = 0 THEN <<>> ELSE <<c>>)
    ELSE With((IF a = <<>> THEN 0 ELSE Head(a)) + (IF b = <<>> THEN 0 ELSE Head(b)) + c,
              LAMBDA x : <<x % BigBase>> \o BigAddC(IF a = <<>> THEN a ELSE Tail(a),
                                                    IF b = <<>> THEN b ELSE Tail(b),
                                                    x \div BigBase))

\* without the zero digits at the top, one digit at least remaining
RECURSIVE BigNormTo(_, _)
BigNormTo(a, n) == IF n > 1 /\ a[n] = 0 THEN BigNormTo(a, n - 1) ELSE SubSeq(a, 1, n)

BigNorm(a) == With(a, LAMBDA x : BigNormTo(x, Len(x)))

BigAdd(a, b) == With(a, LAMBDA x : With(b, LAMBDA y : BigNorm(BigAddC(x, y, 0))))

\* the sum of f[lo..hi]
RECURSIVE SumRange(_, _, _)
SumRange(f, lo, hi) ==
    IF lo = hi THEN f[lo]
    ELSE LET mid == (lo + hi) \div 2
         IN  SumRange(f, lo, mid) + SumRange(f, mid + 1, hi)

Abs(x) == IF x < 0 THEN 0 - x ELSE x

\* The sum over buf[lo..hi] of (n*buf[j] - sum)^2, which is n^2 times the sum
\* of the squares of the differences from the mean sum/n.  With d = h*10000 + l,
\* d^2 = l^2 + 2*h*l*10000 + h^2*10000^2; the three parts are summed as
\* integers over at most 16 elements (12-bit samples keep them within 31 bits).
RECURSIVE DevSquares(_, _, _, _, _)
DevSquares(buf, lo, hi, n, sum) ==
    IF hi - lo < 16
    THEN LET k == hi - lo + 1
             d == [j \in 1..k |-> Abs(n * buf[lo + j - 1] - sum)] \o <<>>
             ll == SumRange([j \in 1..k |-> (d[j] % BigBase) * (d[j] % BigBase)] \o <<>>, 1, k)
             hl == SumRange([j \in 1..k |-> 2 * (d[j] \div BigBase) * (d[j] % BigBase)] \o <<>>, 1, k)
             hh == SumRange([j \in 1..k |-> (d[j] \div BigBase) * (d[j] \div BigBase)] \o <<>>, 1, k)
         IN  BigAdd(BigAdd(Big(ll), <<0>> \o Big(hl)), <<0, 0>> \o Big(hh))
    ELSE LET mid == (lo + hi) \div 2
         IN  BigAdd(DevSquares(buf, lo, mid, n, sum), DevSquares(buf, mid + 1, hi, n, sum))

\* for (j = lo-1; j < hi; ++j) mean += (float)buf[j], from the value acc
RECURSIVE mean_pass(_, _, _, _)
mean_pass(buf, lo, hi, acc) ==
    IF lo = hi THEN f_add(acc, f_from_uint(buf[lo]))
    ELSE With(mean_pass(buf, lo, (lo + hi) \div 2, acc),
              LAMBDA a : mean_pass(buf, ((lo + hi) \div 2) + 1, hi, a))

\* The ways the compiler may carry out variance += diff * diff.  C lets an
\* expression be contracted, and GCC does so by default where the processor
\* has the instruction, as the FPU of the RP2350 has: the product is then
\* not rounded before the addition (TRUE).  Otherwise the product is rounded
\* to a float and the sum is rounded again (FALSE).
FP_CONTRACT == {FALSE, TRUE}

\* for (j = lo-1; j < hi; ++j) { diff = (float)buf[j] - mean; variance += diff * diff; },
\* from the value acc
RECURSIVE variance_pass(_, _, _, _, _, _)
variance_pass(buf, lo, hi, mu, acc, fused) ==
    IF lo = hi THEN LET diff == f_sub(f_from_uint(buf[lo]), mu)
                    IN  IF fused THEN f_fma(diff, diff, acc)
                        ELSE f_add(acc, f_mul(diff, diff))
    ELSE With(variance_pass(buf, lo, (lo + hi) \div 2, mu, acc, fused),
              LAMBDA a : variance_pass(buf, ((lo + hi) \div 2) + 1, hi, mu, a, fused))

\* n = (float)N_SAMPLES; the loop over buf[first-1 .. N_SAMPLES-1] and
\* mean /= n; the second loop with that mean; sqrt(variance/(n-1.0f))
two_passes(buf, first, fused) ==
    With(f_from_uint(N_SAMPLES), LAMBDA n :
        With(f_div(mean_pass(buf, first, N_SAMPLES, f_zero), n), LAMBDA mu :
            With(variance_pass(buf, first, N_SAMPLES, mu, f_zero, fused), LAMBDA variance :
                [mean   |-> mu,
                 stddev |-> f_sqrt(f_div(variance, f_sub(n, f_from_uint(1))))])))

\* two passes that start at the second element
Statistics_from_second(buf) == { two_passes(buf, 2, fused) : fused \in FP_CONTRACT }

\* The statistics of case 'b': the two loops over the whole buffer.  The
\* value is the set of the results that the builds of line 141 give (one
\* result where contraction makes no difference).
Statistics(buf) == { two_passes(buf, 1, fused) : fused \in FP_CONTRACT }

\* what the FIFO can hold when a capture starts, within the bound on the host
FifoStates == UNION { [1..k -> OneShotLevels] : k \in 0..MaxStale }

\* the buffers that a whole capture can leave in adc_samples
CapturedBuffers ==
    { Pulled(f, sig, 0, N_SAMPLES) : f \in FifoStates, sig \in Signals }

\* the two passes over each of these buffers, evaluated once
CapturedStatistics == [buf \in CapturedBuffers |-> Statistics(buf)]

\* the mean and stddev that case 'b' hands to printf for the two %g of its
\* response, for each build: they are computed from adc_samples as
\* adc_capture has left it
b_stats ==
    IF adc_samples \in DOMAIN CapturedStatistics
    THEN CapturedStatistics[adc_samples]
    ELSE Statistics(adc_samples)

\* case 'b' of the switch: the polling loops come first
CmdB ==
    /\ pc = "switch"
    /\ cmd0 = "b"
    /\ pc' = "b_wait_low"
    /\ UNCHANGED <<inp, bufA, override_led, led, icg, adc_samples, fifo, adc_running,
                   signal, nconv, cap_i, start, msg_bytes, out, bus, steps, owed,
                   mean, stddev>>

\* steps with one more reading of ICG_PIN; a reading equal to the one before
\* it is not recorded again
Polled(st, level) ==
    LET e == IF level = 1 THEN "gpio_get=1" ELSE "gpio_get=0"
    IN  IF st # <<>> /\ st[Len(st)] = e THEN st ELSE Append(st, e)

\* a loop that never waits
no_wait(level) == level \in {0, 1}

\* a loop that ends on a low reading
ends_on_low(level) == level = 0

\* the first loop ends on a reading that is not high: while (gpio_get(ICG_PIN))
wait_low_ends(level) == ~(level = 1)

\* the second loop ends on a reading that is high: while (!gpio_get(ICG_PIN))
wait_high_ends(level) == ~(~(level = 1))

\* while (gpio_get(ICG_PIN)) { }
BPollLow ==
    /\ pc = "b_wait_low"
    /\ steps' = Polled(steps, icg)
    /\ pc' = IF wait_low_ends(icg) THEN "b_wait_high" ELSE "b_wait_low"
    /\ UNCHANGED <<inp, bufA, override_led, led, icg, adc_samples, fifo, adc_running,
                   signal, nconv, cap_i, start, msg_bytes, out, bus, owed, mean, stddev>>

\* while (!gpio_get(ICG_PIN)) { }, and on leaving it start = time_us_32()
\* and adc_capture's adc_run(true)
BPollHigh ==
    /\ pc = "b_wait_high"
    /\ IF ~wait_high_ends(icg)
       THEN /\ steps' = Polled(steps, icg)
            /\ UNCHANGED <<pc, start, adc_running, signal, nconv, cap_i>>
       ELSE /\ steps' = Polled(steps, icg) \o <<"time_us_32", "adc_run(true)">>
            /\ start' \in TimerReads
            /\ adc_running' = TRUE
            /\ signal' \in Signals
            /\ nconv' = 0
            /\ cap_i' = 0
            /\ pc' = "b_capture"
    /\ UNCHANGED <<inp, bufA, override_led, led, icg, adc_samples, fifo,
                   msg_bytes, out, bus, owed, mean, stddev>>

\* adc_capture's loop: the iterations from cap_i on that find a value without
\* waiting, up to the index upto where adc_fifo_get_blocking next has to wait
\* for the ADC (or the loop ends)
AdcPull(upto) ==
    /\ pc = "b_capture"
    /\ adc_running
    /\ cap_i < N_SAMPLES
    /\ upto \in StallPoints \cup {N_SAMPLES}
    /\ upto > cap_i
    /\ adc_samples' = capture_loop(adc_samples, cap_i, upto, fifo, signal, nconv)
    /\ LET n == upto - cap_i
           stale == IF n < Len(fifo) THEN n ELSE Len(fifo)
       IN  /\ fifo' = Drop(fifo, stale)
           /\ nconv' = nconv + (n - stale)
    /\ cap_i' = upto
    /\ steps' = IF steps[Len(steps)] = "adc_fifo_get_blocking" THEN steps
                ELSE Append(steps, "adc_fifo_get_blocking")
    /\ UNCHANGED <<pc, inp, bufA, override_led, led, icg, adc_running, signal,
                   start, msg_bytes, out, bus, owed, mean, stddev>>

\* the loop has ended: adc_run(false), adc_fifo_drain(), the elapsed time,
\* the statistics, the response, and the last statement of interpret_command
BFinish ==
    /\ pc = "b_capture"
    /\ ~(cap_i < N_SAMPLES)
    /\ \E st \in b_stats : mean' = st.mean /\ stddev' = st.stddev
    /\ adc_running' = FALSE
    /\ fifo' = <<>>
    /\ \E d \in Durations :
        LET time_taken == Sub32(Add32(start, d), start)
        IN  out' = Append(out, <<"b", " ", "%g", " ", "%g", " ">> \o Fmt_u32(time_taken))
    /\ steps' = StepsAtEnd(override_led,
                           steps \o <<"adc_run(false)", "adc_fifo_drain", "time_us_32", "printf">>)
    /\ led' = LedAtEnd(override_led, led)
    /\ pc' = "done"
    /\ UNCHANGED <<inp, bufA, override_led, icg, adc_samples, signal, nconv, cap_i,
                   start, msg_bytes, bus, owed>>

---------------------------------------------------------------------------
\* the case labels of the switch
CommandCodes == {"v", "L", "a", "b", "r", "q", "p"}

\* a response that leaves the character out
unknown_plain(c) == <<"?">> \o ErrUnknown

unknown_response(c) == <<c>> \o ErrUnknown

\* default
CmdDefault ==
    /\ pc = "switch"
    /\ cmd0 \notin CommandCodes
    /\ out' = Append(out, unknown_response(cmd0))
    /\ led' = LedAtEnd(override_led, led)
    /\ steps' = StepsAtEnd(override_led, Append(steps, "printf"))
    /\ pc' = "done"
    /\ UNCHANGED <<inp, bufA, override_led, icg, adc_samples, fifo, adc_running,
                   signal, nconv, cap_i, start, msg_bytes, bus, owed, mean, stddev>>

---------------------------------------------------------------------------
Next ==
    \/ \E line \in HostLines : HostSend(line)
    \/ IcgToggle
    \/ Getc
    \/ MainSkip
    \/ MainDispatch
    \/ MainLoop
    \/ CmdV
    \/ CmdL
    \/ CmdA
    \/ CmdB
    \/ BPollLow
    \/ BPollHigh
    \/ \E upto \in StallPoints \cup {N_SAMPLES} : AdcPull(upto)
    \/ BFinish
    \/ CmdR
    \/ CmdQ
    \/ CmdP
    \/ CmdDefault

Spec == Init /\ [][Next]_vars

\* the steps of the firmware's one thread
Firmware ==
    \/ Getc
    \/ MainSkip
    \/ MainDispatch
    \/ MainLoop
    \/ CmdV
    \/ CmdL
    \/ CmdA
    \/ CmdB
    \/ BPollLow
    \/ BPollHigh
    \/ \E upto \in StallPoints \cup {N_SAMPLES} : AdcPull(upto)
    \/ BFinish
    \/ CmdR
    \/ CmdQ
    \/ CmdP
    \/ CmdDefault

\* The processor runs the one thread without pause, so a step the thread can
\* take is taken (WF); a free-running ADC keeps converting, so a pull that
\* waits is served.  A polling loop reads the line far more often than the
\* line moves, so a level that keeps coming back is read in the end (SF).
\* The host and the ICG line are under no obligation.
Fairness ==
    /\ WF_vars(Firmware)
    /\ SF_vars(BPollLow /\ pc' # pc)
    /\ SF_vars(BPollHigh /\ pc' # pc)

FairSpec == Spec /\ Fairness

---------------------------------------------------------------------------
(* getstr on its own: one call, on every line of a set of typed lines *)

\* what is typed: a letter, a space, the backspace, the carriage return and
\* the character of code 0
GetstrChars == {"a", " ", BS, CR, NUL}

\* n letters
Fill(n) == [k \in 1..n |-> "a"] \o <<>>

\* the lines typed, without their NL: every line over GetstrChars up to the
\* length MaxTyped, and lines that reach and pass the capacity of bufA, some
\* with backspaces and more characters after them
GetstrInputs ==
    UNION { {f \o <<>> : f \in [1..n -> GetstrChars]} : n \in 0..MaxTyped }
    \cup { Fill(n) \o t : n \in {NBUFA - 2, NBUFA - 1, NBUFA, NBUFA + 5},
                           t \in {<<>>, <<BS>>, <<BS, "z">>, <<BS, BS, "z", "y", "x">>} }

\* main has called getstr and the line typed waits in the UART
GetstrInit ==
    /\ pc = "getstr"
    /\ \E line \in GetstrInputs : inp = Append(line, NL)
    /\ bufA = <<>>
    /\ override_led = 0
    /\ led = 0
    /\ icg = 0
    /\ adc_samples = [j \in 1..N_SAMPLES |-> 0] \o <<>>
    /\ fifo = <<>>
    /\ adc_running = FALSE
    /\ signal = "none"
    /\ nconv = 0
    /\ cap_i = 0
    /\ start = <<0, 0>>
    /\ msg_bytes = <<0, 0, 0, 0>>
    /\ out = <<>>
    /\ bus = <<>>
    /\ steps = <<>>
    /\ owed = 0
    /\ mean = f_zero
    /\ stddev = f_zero

GetstrSpec == GetstrInit /\ [][Getc]_vars

TypeOK ==
    /\ pc \in {"getstr", "main_if", "switch", "b_wait_low", "b_wait_high", "b_capture", "done"}
    /\ override_led \in {0, 1}
    /\ led \in {0, 1}
    /\ Len(bufA) <= NBUFA - 1
    /\ Len(fifo) <= FifoDepth

---------------------------------------------------------------------------
(* Properties *)

IsPrefix(s, t) == Len(s) <= Len(t) /\ SubSeq(t, 1, Len(s)) = s

\* the places of the thread inside the b command
BStates == {"b_wait_low", "b_wait_high", "b_capture"}

\* C1: commands are handled one at a time in arrival order.  A line of length
\* > 0 read by getstr is handed to interpret_command exactly once, at once
\* (owed is 1 exactly between the return of getstr and the call); a line of
\* length 0 goes back to getstr with no action and no response; and no input
\* character is consumed from the return of getstr to the end of the command.
C1_OneAtATime ==
    /\ [](owed \in {0, 1} /\ (owed = 1 <=> (pc = "main_if" /\ Len(bufA) > 0)))
    /\ [][pc' = "switch" /\ pc # "switch" => pc = "main_if" /\ Len(bufA) > 0]_vars
    /\ [][pc = "main_if" /\ Len(bufA) > 0 /\ pc' # pc => pc' = "switch"]_vars
    /\ [][pc = "main_if" /\ Len(bufA) = 0 =>
            /\ pc' \in {"main_if", "getstr"}
            /\ UNCHANGED <<led, override_led, adc_samples, fifo, msg_bytes,
                           out, bus, steps, owed>>]_vars
    /\ [][pc # "getstr" => IsPrefix(inp, inp')]_vars

\* a command has run to its end while the next line already waits in the UART
C1_Witness == pc = "done" /\ out # <<>> /\ inp # <<>>

\* C2: in a b command the ADC is set running, and a sample pulled, only after
\* the handler has read ICG low and later read it high, both within this
\* command, whatever the level was at dispatch.
C2_RisingEdgeFirst ==
    \A k \in 1..Len(steps) :
        steps[k] \in {"adc_run(true)", "adc_fifo_get_blocking"} =>
            \E p0 \in 1..k : \E p1 \in (p0 + 1)..k :
                steps[p0] = "gpio_get=0" /\ steps[p1] = "gpio_get=1"

\* a capture is running in a command that first read ICG high
C2_Witness ==
    /\ pc = "b_capture"
    /\ cap_i > 0
    /\ \E k \in 1..Len(steps) : \E p0 \in (k + 1)..Len(steps) :
            steps[k] = "gpio_get=1" /\ steps[p0] = "gpio_get=0"

\* C3 as stated: the first phase polls until the input reads high, the second
\* until it reads low, and the capture starts at the end of the second: the
\* reading just before the capture is a low one.
C3_HighThenLow ==
    \A k \in 1..Len(steps) :
        steps[k] = "adc_run(true)" =>
            k > 3 /\ steps[k - 2] = "gpio_get=0" /\ steps[k - 3] = "gpio_get=1"

\* C3: the first phase polls until the input reads low, the second until it
\* reads high, and the capture starts when the second phase ends: the two
\* readings just before the capture are a low one, then a high one.
C3_LowThenHigh ==
    /\ [](\A k \in 1..Len(steps) :
            steps[k] = "adc_run(true)" =>
                k > 3 /\ steps[k - 2] = "gpio_get=1" /\ steps[k - 3] = "gpio_get=0")
    /\ [][pc = "b_wait_low" /\ pc' # pc => icg = 0 /\ pc' = "b_wait_high"]_vars
    /\ [][pc = "b_wait_low" /\ icg = 0 /\ steps' # steps => pc' = "b_wait_high"]_vars
    /\ [][pc = "b_wait_high" /\ pc' # pc =>
            icg = 1 /\ pc' = "b_capture" /\ adc_running' /\ cap_i' = 0]_vars
    /\ [][pc = "b_wait_high" /\ icg = 1 /\ steps' # steps => pc' = "b_capture"]_vars

\* the second phase has just ended and nothing is pulled yet
C3_Witness == pc = "b_capture" /\ cap_i = 0 /\ adc_running

\* the hardware calls of a command other than the LED writes and ICG readings
RECURSIVE Calls(_)
Calls(st) ==
    IF st = <<>> THEN <<>>
    ELSE IF Head(st) \in {"gpio_put(LED,1)", "gpio_put(LED,0)", "gpio_get=0", "gpio_get=1"}
         THEN Calls(Tail(st))
         ELSE <<Head(st)>> \o Calls(Tail(st))

\* what pull j (from 1) of a capture returns: the results left in the FIFO
\* before adc_run(true) come first, then the conversions in order
CapturedValueOK(j) ==
    LET left == cap_i - nconv
    IN  IF j <= left THEN adc_samples[j] \in OneShotLevels
        ELSE adc_samples[j] = Sample(signal, j - left - 1)

\* C4: a completed b command has made its calls in the order edge detection,
\* timer, adc_run(true), N_SAMPLES blocking pulls, adc_run(false), FIFO drain,
\* timer, and then printed its one line; pull j went to element j of the
\* buffer, in increasing order, so that every element is overwritten; nothing
\* is printed before the end.
C4_CaptureOrder ==
    /\ [](pc = "done" /\ bufA[1] = "b" =>
            /\ Calls(steps) = <<"time_us_32", "adc_run(true)", "adc_fifo_get_blocking",
                               "adc_run(false)", "adc_fifo_drain", "time_us_32", "printf">>
            /\ \E k \in 1..Len(steps) :
                /\ steps[k] = "time_us_32"
                /\ steps[k - 1] = "gpio_get=1"
                /\ \A q \in (k + 1)..Len(steps) : steps[q] \notin {"gpio_get=0", "gpio_get=1"}
            /\ cap_i = N_SAMPLES
            /\ Len(adc_samples) = N_SAMPLES
            /\ \A j \in 1..N_SAMPLES : CapturedValueOK(j)
            /\ ~adc_running
            /\ fifo = <<>>
            /\ Len(out) = 1
            /\ SubSeq(out[1], 1, 6) = <<"b", " ", "%g", " ", "%g", " ">>
            /\ \A c \in 7..Len(out[1]) : IsDigit(out[1][c])
            /\ Len(out[1]) > 6)
    /\ [](pc \in BStates => out = <<>>)
    /\ [](pc = "b_capture" => \A j \in 1..cap_i : CapturedValueOK(j))
    /\ [][pc = "b_capture" /\ cap_i' # cap_i =>
            /\ cap_i' > cap_i
            /\ pc' = "b_capture"
            /\ \A j \in 1..N_SAMPLES :
                (j <= cap_i \/ j > cap_i') => adc_samples'[j] = adc_samples[j]]_vars
    /\ [][adc_samples' # adc_samples => pc = "b_capture" /\ cap_i' > cap_i]_vars

\* a b command has ended with the ramp it sampled in the buffer, from the
\* first element to the last
C4_Witness ==
    /\ pc = "done"
    /\ bufA[1] = "b"
    /\ signal = "ramp"
    /\ adc_samples[N_SAMPLES] = (N_SAMPLES - 1) % 4096
    /\ adc_samples[1] = 0

\* the texts the properties name
UNKNOWN_TEXT == <<" ", "e", "r", "r", "o", "r", ":", " ", "U", "n", "k", "n", "o", "w", "n", " ", "c", "o", "m", "m", "a", "n", "d">>

ERROR_WORD == <<"e", "r", "r", "o", "r">>

L_NO_VALUE_TEXT == <<"L", " ", "e", "r", "r", "o", "r", ":", " ", "n", "o", " ", "v", "a", "l", "u", "e">>

\* C5: the b command has no timeout.  While ICG is not read low (then high)
\* the command stays in its polling loop, and while no pull is served it stays
\* in adc_capture; as long as it is in there nothing is printed, no input
\* character is read and no line is dispatched.  A command whose polling never
\* ends is one for which ICG stays at the level that keeps the loop going; and
\* once the levels are read and the pulls are served the command ends and the
\* interpreter is back in getstr.
C5_NoTimeout ==
    /\ [][pc = "b_wait_low" /\ icg = 1 => pc' = "b_wait_low"]_vars
    /\ [][pc = "b_wait_high" /\ icg = 0 => pc' = "b_wait_high"]_vars
    /\ [][pc = "b_capture" /\ cap_i < N_SAMPLES /\ cap_i' = cap_i => pc' = "b_capture"]_vars
    /\ [][(pc \in BStates) /\ pc' \notin BStates => (pc' = "done" /\ cap_i = N_SAMPLES)]_vars
    /\ [][(pc \in BStates) =>
            /\ IsPrefix(inp, inp')
            /\ UNCHANGED <<bufA, owed>>
            /\ (pc' # "done" => out' = <<>>)]_vars
    /\ (pc \in BStates) ~> \/ pc = "getstr"
                           \/ [](pc = "b_wait_low" /\ icg = 1)
                           \/ [](pc = "b_wait_high" /\ icg = 0)

\* a b command waits for ICG to go low while the next line waits in the UART
C5_Witness == pc = "b_wait_low" /\ icg = 1 /\ inp # <<>> /\ out = <<>>

\* the first token of the C string s, and the one after it
Token1(s) == strtok(s).tok

Token2(s) == strtok(strtok(s).rest).tok

\* the line in bufA is a valid command: a command code with the arguments
\* the command needs
ValidLine ==
    \/ bufA[1] \in {"v", "a", "b", "r", "q"}
    \/ bufA[1] = "L" /\ Token1(Tail(bufA)) # <<>>
    \/ bufA[1] = "p" /\ Token1(Tail(bufA)) # <<>> /\ Token2(Tail(bufA)) # <<>>

\* C6 as stated: the response to every valid command line begins with the
\* command code, the first character of the line.
C6_AllPrefixed ==
    [][(pc \in {"switch", "b_capture"}) /\ pc' = "done" /\ ValidLine =>
            out' # <<>> /\ out'[1] # <<>> /\ out'[1][1] = bufA[1]]_vars

\* C6: the response to a valid v, L, a, b or p line is one line that begins
\* with the command code and a space; the responses to r and q are data lines
\* with no command code in front: N_SAMPLES lines of decimal digits for r,
\* N_SAMPLES / 20 lines of 40 characters of the base64 alphabet for q.
C6_PrefixedButData ==
    [][(pc \in {"switch", "b_capture"}) /\ pc' = "done" /\ ValidLine =>
            IF bufA[1] \in {"v", "L", "a", "b", "p"}
            THEN /\ Len(out') = 1
                 /\ Len(out'[1]) > 2
                 /\ out'[1][1] = bufA[1]
                 /\ out'[1][2] = " "
            ELSE IF bufA[1] = "r"
            THEN /\ Len(out') = N_SAMPLES
                 /\ \A j \in 1..N_SAMPLES :
                        /\ out'[j] # <<>>
                        /\ \A c \in 1..Len(out'[j]) : IsDigit(out'[j][c])
            ELSE /\ bufA[1] = "q"
                 /\ Len(out') = N_SAMPLES \div 20
                 /\ \A j \in 1..(N_SAMPLES \div 20) :
                        /\ Len(out'[j]) = 40
                        /\ \A c \in 1..40 :
                            \E a \in 1..64 : base64_alphabet[a] = out'[j][c]]_vars

\* an r command has answered with its lines of digits
C6_Witness == pc = "done" /\ bufA[1] = "r" /\ Len(out) = N_SAMPLES /\ IsDigit(out[1][1])

\* C7: a line whose first character X is none of v, L, a, b, r, q, p is
\* answered with the one line "X error: Unknown command"; no other call is
\* made for it and nothing is written to the bus.
C7_UnknownCommand ==
    pc = "done" /\ bufA[1] \notin {"v", "L", "a", "b", "r", "q", "p"} =>
        /\ out = << <<bufA[1]>> \o UNKNOWN_TEXT >>
        /\ Calls(steps) = <<"printf">>
        /\ bus = <<>>

\* the line x has been answered
C7_Witness == pc = "done" /\ bufA = <<"x">> /\ Len(out) = 1

\* the command about to run is one that fails for want of an argument or for
\* its command code
ErrorLine ==
    \/ bufA[1] \notin {"v", "L", "a", "b", "r", "q", "p"}
    \/ bufA[1] = "L" /\ Token1(Tail(bufA)) = <<>>
    \/ bufA[1] = "p" /\ (Token1(Tail(bufA)) = <<>> \/ Token2(Tail(bufA)) = <<>>)

\* the command that has run reported an error
ErrorDone == pc = "done" /\ Len(out) = 1 /\ Contains(out[1], ERROR_WORD)

\* C8: a command that lacks an argument (L, p), has an unknown code, or whose
\* bus write returns a count other than 4 prints one line with the word
\* "error" in it and leaves adc_samples and override_led as they were; the
\* interpreter then returns to getstr, and a line that waits is read and
\* dispatched.
C8_RecoverableErrors ==
    /\ [][pc = "switch" /\ pc' # pc /\ (ErrorLine \/ (bus' # <<>> /\ bus'[1].nresult # 4)) =>
            /\ pc' = "done"
            /\ Len(out') = 1
            /\ Contains(out'[1], ERROR_WORD)
            /\ UNCHANGED <<adc_samples, override_led>>]_vars
    /\ [][pc = "done" /\ pc' # pc => pc' = "getstr"]_vars
    /\ ErrorDone ~> pc = "getstr"
    /\ (ErrorDone /\ inp # <<>>) ~> pc = "switch"

\* a p command has reported a bus write that returned no count of 4
C8_Witness == ErrorDone /\ bus # <<>> /\ bus[1].nresult # 4

\* the LED writes among the calls st
RECURSIVE LedWrites(_)
LedWrites(st) ==
    IF st = <<>> THEN <<>>
    ELSE IF Head(st) \in {"gpio_put(LED,1)", "gpio_put(LED,0)"}
         THEN <<Head(st)>> \o LedWrites(Tail(st))
         ELSE LedWrites(Tail(st))

\* C9: L with no token answers "L error: no value", writes nothing to the LED
\* in its handler and leaves override_led alone; L with a first token that
\* atoi reads as n (0 for a token that is no number; one of the results of
\* atoi for a number that fits no int) sets the LED and override_led to the
\* least-significant bit of n and answers "L 1" for odd n and "L 0" for even n.
C9_LedCommand ==
    /\ [][pc = "switch" /\ bufA[1] = "L" /\ pc' # pc =>
            IF Token1(Tail(bufA)) = <<>>
            THEN /\ out' = << L_NO_VALUE_TEXT >>
                 /\ override_led' = override_led
                 /\ led' = override_led
                 /\ LedWrites(steps') =
                        LedWrites(steps) \o (IF override_led = 0 THEN <<"gpio_put(LED,0)">>
                                             ELSE <<>>)
            ELSE \E n \in atoi(Token1(Tail(bufA))) :
                 LET odd == \E h \in {n \div 2} : n = 2 * h + 1
                 IN  /\ override_led' = (IF odd THEN 1 ELSE 0)
                     /\ led' = (IF odd THEN 1 ELSE 0)
                     /\ out' = << IF odd THEN <<"L", " ", "1">> ELSE <<"L", " ", "0">> >>]_vars
    /\ [](pc = "done" /\ bufA = <<"L", " ", "5">> => out = << <<"L", " ", "1">> >> /\ led = 1)
    /\ [](pc = "done" /\ bufA = <<"L", "4">> => out = << <<"L", " ", "0">> >> /\ led = 0)
    /\ [](pc = "done" /\ bufA = <<"L", ",", "x">> => out = << <<"L", " ", "0">> >> /\ led = 0)

\* L - 3 has switched the LED on
C9_Witness ==
    /\ pc = "done"
    /\ bufA = <<"L", " ", "-", "3">>
    /\ override_led = 1
    /\ led = 1
    /\ out = << <<"L", " ", "1">> >>

\* C10: the LED as activity indicator.  At the start of a command the LED is
\* driven on iff override_led is 0; at its end it is driven off iff
\* override_led is then 0; while override_led is 1 only an L command changes
\* the LED; so that in getstr (and on its return) the LED equals override_led.
C10_Indicator ==
    /\ [][pc = "main_if" /\ pc' = "switch" =>
            IF override_led = 0 THEN led' = 1 /\ steps' = <<"gpio_put(LED,1)">>
            ELSE led' = led /\ steps' = <<>>]_vars
    /\ [][pc # "done" /\ pc' = "done" =>
            /\ steps' # <<>>
            /\ IF override_led' = 0
               THEN led' = 0 /\ steps'[Len(steps')] = "gpio_put(LED,0)"
               ELSE steps'[Len(steps')] # "gpio_put(LED,0)"]_vars
    /\ [][override_led = 1 /\ led' # led => pc = "switch" /\ bufA[1] = "L"]_vars
    /\ [][led' # led => (pc = "main_if" /\ pc' = "switch") \/ pc' = "done"]_vars
    /\ [](pc \in {"getstr", "main_if", "done"} => led = override_led)

\* a capture has ended with the LED held on by the override
C10_Witness == pc = "done" /\ bufA[1] = "b" /\ override_led = 1 /\ led = 1

\* C11: the frame of the persistent state.  adc_samples changes only in the
\* capture of a b command and override_led only in an L command that has a
\* token; r and q print the buffer as it is and leave it as it is, so that
\* without a b in between they print the same lines again.
C11_Frame ==
    /\ [][adc_samples' # adc_samples => pc = "b_capture" /\ bufA[1] = "b"]_vars
    /\ [][override_led' # override_led =>
            pc = "switch" /\ bufA[1] = "L" /\ Token1(Tail(bufA)) # <<>>]_vars
    /\ [][pc = "switch" /\ pc' = "done" /\ bufA[1] = "r" =>
            out' = r_lines(adc_samples) /\ adc_samples' = adc_samples]_vars
    /\ [][pc = "switch" /\ pc' = "done" /\ bufA[1] = "q" =>
            out' = q_lines(adc_samples) /\ adc_samples' = adc_samples]_vars
    /\ [][pc = "switch" /\ bufA[1] # "b" /\ pc' # pc => adc_samples' = adc_samples]_vars
    /\ [][pc = "switch" /\ pc' # pc /\ ~(bufA[1] = "L" /\ Token1(Tail(bufA)) # <<>>) =>
            override_led' = override_led]_vars

\* a q command has printed a captured ramp while the LED is overridden
C11_Witness ==
    /\ pc = "done"
    /\ bufA[1] = "q"
    /\ override_led = 1
    /\ adc_samples[2] = 1
    /\ Len(out) = N_SAMPLES \div 20

\* the number a line of decimal digits stands for
RECURSIVE DecimalValue(_, _)
DecimalValue(line, k) ==
    IF k = 0 THEN 0
    ELSE 10 * DecimalValue(line, k - 1) + ((CHOOSE d \in 1..10 : Digits[d] = line[k]) - 1)

\* line is the unsigned decimal rendering of a number: digits only, at least
\* one, and no leading zero but for the number 0
IsDecimal(line) ==
    /\ line # <<>>
    /\ \A c \in 1..Len(line) : IsDigit(line[c])
    /\ (Len(line) > 1 => line[1] # "0")

\* C12: the r command prints exactly N_SAMPLES lines and nothing else; line j
\* is the unsigned decimal rendering of element j of the buffer, in buffer
\* order, and read back as a number it is the stored value.
C12_DecimalReport ==
    [][pc = "switch" /\ bufA[1] = "r" /\ pc' # pc =>
            /\ pc' = "done"
            /\ out = <<>>
            /\ Len(out') = N_SAMPLES
            /\ \A j \in 1..N_SAMPLES :
                    /\ IsDecimal(out'[j])
                    /\ DecimalValue(out'[j], Len(out'[j])) = adc_samples[j]
            /\ Calls(steps') = <<"printf">>
            /\ bus' = <<>>]_vars

\* an r command has printed a captured ramp, from 0 in the first line to
\* 3799 in the last
C12_Witness ==
    /\ pc = "done"
    /\ bufA[1] = "r"
    /\ out[1] = <<"0">>
    /\ out[2048] = <<"2", "0", "4", "7">>
    /\ out[N_SAMPLES] = <<"3", "7", "9", "9">>

\* the standard base-64 alphabet: A-Z, a-z, 0-9, +, /
STANDARD_ALPHABET ==
    <<"A", "B", "C", "D", "E", "F", "G", "H", "I", "J", "K", "L", "M">> \o
    <<"N", "O", "P", "Q", "R", "S", "T", "U", "V", "W", "X", "Y", "Z">> \o
    <<"a", "b", "c", "d", "e", "f", "g", "h", "i", "j", "k", "l", "m">> \o
    <<"n", "o", "p", "q", "r", "s", "t", "u", "v", "w", "x", "y", "z">> \o
    Digits \o <<"+", "/">>

\* the index (from 0) of the character ch in the standard alphabet
AlphabetIndex(ch) == (CHOOSE a \in 1..64 : STANDARD_ALPHABET[a] = ch) - 1

\* the 12 bits a pair of characters stands for
Decode(hi, lo) == AlphabetIndex(hi) * 64 + AlphabetIndex(lo)

\* for every 16-bit value the pair of characters is one of the alphabet and
\* decodes to the low 12 bits of the value
q_RoundTrip ==
    \A val \in 0..65535 :
        /\ \E a \in 1..64 : STANDARD_ALPHABET[a] = q_hi(val)
        /\ \E a \in 1..64 : STANDARD_ALPHABET[a] = q_lo(val)
        /\ AlphabetIndex(q_hi(val)) = (val % 4096) \div 64
        /\ AlphabetIndex(q_lo(val)) = val % 64
        /\ Decode(q_hi(val), q_lo(val)) = val % 4096

\* C13: the q command prints exactly N_SAMPLES / 20 lines of 40 characters of
\* the standard alphabet and nothing else; the pair k of line j is the
\* characters for bits 6..11 and bits 0..5 of sample 20*j + k and decodes to
\* its low 12 bits; no sample is left out; and the encoding of every 16-bit
\* value decodes to its low 12 bits.
C13_PackedReport ==
    /\ [](/\ base64_alphabet = STANDARD_ALPHABET
          /\ \A a, b \in 1..64 : STANDARD_ALPHABET[a] = STANDARD_ALPHABET[b] => a = b
          /\ (N_SAMPLES \div 20) * 20 = N_SAMPLES
          /\ q_RoundTrip)
    /\ [][pc = "switch" /\ bufA[1] = "q" /\ pc' # pc =>
            /\ pc' = "done"
            /\ out = <<>>
            /\ Len(out') = N_SAMPLES \div 20
            /\ \A j \in 0..((N_SAMPLES \div 20) - 1) :
                    /\ Len(out'[j + 1]) = 40
                    /\ \A k \in 0..19 :
                          /\ AlphabetIndex(out'[j + 1][2 * k + 1])
                                = (adc_samples[20 * j + k + 1] % 4096) \div 64
                          /\ AlphabetIndex(out'[j + 1][2 * k + 2])
                                = adc_samples[20 * j + k + 1] % 64
                          /\ Decode(out'[j + 1][2 * k + 1], out'[j + 1][2 * k + 2])
                                = adc_samples[20 * j + k + 1] % 4096
                          /\ \E a \in 1..64 : STANDARD_ALPHABET[a] = out'[j + 1][2 * k + 1]
                          /\ \E a \in 1..64 : STANDARD_ALPHABET[a] = out'[j + 1][2 * k + 2]
            /\ bus' = <<>>]_vars

\* a q command has printed a captured ramp: sample 0 as AA, sample 65 as BB
\* in line 3, and the last sample 3799 as 7X
C13_Witness ==
    /\ pc = "done"
    /\ bufA[1] = "q"
    /\ SubSeq(out[1], 1, 4) = <<"A", "A", "A", "B">>
    /\ SubSeq(out[4], 11, 12) = <<"B", "B">>
    /\ SubSeq(out[N_SAMPLES \div 20], 39, 40) = <<"7", "X">>

\* the number of tokens of s: the maximal runs of characters other than the
\* comma and the space
TokenCount(s) ==
    Cardinality({k \in 1..Len(s) :
                    s[k] \notin {",", " "} /\ (k = 1 \/ s[k - 1] \in {",", " "})})

P_NO_SH_TEXT ==
    <<"p", " ", "e", "r", "r", "o", "r", ":", " ", "n", "o", " ", "v", "a", "l", "u", "e", " ">> \o
    <<"f", "o", "r", " ", "u", "s", "_", "S", "H", " ", "(", "n", "o", "r", " ">> \o
    <<"u", "s", "_", "I", "C", "G", ")">>

P_NO_ICG_TEXT ==
    <<"p", " ", "e", "r", "r", "o", "r", ":", " ", "n", "o", " ", "v", "a", "l", "u", "e", " ">> \o
    <<"f", "o", "r", " ", "u", "s", "_", "I", "C", "G">>

\* C14: a p command with no token prints the one line
\* "p error: no value for us_SH (nor us_ICG)", one with exactly one token
\* prints the one line "p error: no value for us_ICG"; neither writes to the
\* bus nor changes msg_bytes.
C14_PMissingValue ==
    [][pc = "switch" /\ bufA[1] = "p" /\ pc' # pc /\ TokenCount(Tail(bufA)) < 2 =>
            /\ pc' = "done"
            /\ out' = << IF TokenCount(Tail(bufA)) = 0 THEN P_NO_SH_TEXT ELSE P_NO_ICG_TEXT >>
            /\ bus' = <<>>
            /\ Calls(steps') = <<"printf">>
            /\ msg_bytes' = msg_bytes]_vars

\* a p command with one token has been answered
C14_Witness == pc = "done" /\ bufA[1] = "p" /\ out = <<P_NO_ICG_TEXT>> /\ bus = <<>>

\* a p command with no token has been answered
C14_WitnessNoToken == pc = "done" /\ bufA[1] = "p" /\ out = <<P_NO_SH_TEXT>>

P_I2C_TEXT ==
    <<"p", " ", "e", "r", "r", "o", "r", ":", " ", "u", "n", "s", "u", "c", "c", "e", "s", "s", "f", "u", "l", " ">> \o
    <<"I", "2", "C", " ", "c", "o", "m", "m", "u", "n", "i", "c", "a", "t", "i", "o", "n">>

\* line is "p <number> <number>", the numbers in decimal
IsPReport(line) ==
    \E k \in 4..(Len(line) - 1) :
        /\ SubSeq(line, 1, 2) = <<"p", " ">>
        /\ IsDecimal(SubSeq(line, 3, k - 1))
        /\ line[k] = " "
        /\ IsDecimal(SubSeq(line, k + 1, Len(line)))

\* C15: a p command with two tokens makes exactly one bus write, of 4 bytes
\* to the address 0x51, whatever the write returns; its one response line is
\* "p <us_SH> <us_ICG>" if and only if the write returned 4, and
\* "p error: unsuccessful I2C communication" for every other return value.
C15_POneWrite ==
    [][pc = "switch" /\ bufA[1] = "p" /\ pc' # pc /\ TokenCount(Tail(bufA)) >= 2 =>
            /\ pc' = "done"
            /\ Len(bus') = 1
            /\ bus'[1].addr = 81
            /\ bus'[1].len = 4
            /\ Len(bus'[1].bytes) = 4
            /\ Calls(steps') = <<"i2c_write_blocking", "printf">>
            /\ Len(out') = 1
            /\ (bus'[1].nresult = 4 <=> IsPReport(out'[1]))
            /\ (bus'[1].nresult # 4 <=> out'[1] = P_I2C_TEXT)]_vars

\* a write that returned a partial count has been reported as an error
C15_Witness ==
    /\ pc = "done"
    /\ bufA[1] = "p"
    /\ Len(bus) = 1
    /\ bus[1].nresult = 2
    /\ out = <<P_I2C_TEXT>>

\* where token n (from 1) of s begins: the n-th character that is no
\* separator and has none before it or a separator
TokenStart(s, n) ==
    CHOOSE k \in 1..Len(s) :
        /\ s[k] \notin {",", " "} /\ (k = 1 \/ s[k - 1] \in {",", " "})
        /\ Cardinality({q \in 1..k :
                s[q] \notin {",", " "} /\ (q = 1 \/ s[q - 1] \in {",", " "})}) = n

\* token n (from 1) of s
NthToken(s, n) ==
    LET b == TokenStart(s, n)
        e == CHOOSE q \in b..Len(s) :
                /\ \A r \in b..q : s[r] \notin {",", " "}
                /\ (q = Len(s) \/ s[q + 1] \in {",", " "})
    IN  SubSeq(s, b, e)

\* tok is an integer numeral: up to 9 digits, with or without a minus sign
\* in front
IsNumeral(tok) ==
    /\ tok # <<>>
    /\ LET d == IF tok[1] = "-" THEN Tail(tok) ELSE tok
       IN  d # <<>> /\ Len(d) <= 9 /\ \A c \in 1..Len(d) : IsDigit(d[c])

\* the integer the numeral tok stands for
NumeralValue(tok) ==
    IF tok[1] = "-" THEN 0 - DecimalValue(Tail(tok), Len(tok) - 1)
    ELSE DecimalValue(tok, Len(tok))

\* line is "p <a> <b>" with a and b in decimal
IsPReportOf(line, a, b) ==
    \E k \in 4..(Len(line) - 1) :
        /\ SubSeq(line, 1, 2) = <<"p", " ">>
        /\ IsDecimal(SubSeq(line, 3, k - 1))
        /\ DecimalValue(SubSeq(line, 3, k - 1), k - 3) = a
        /\ line[k] = " "
        /\ IsDecimal(SubSeq(line, k + 1, Len(line)))
        /\ DecimalValue(SubSeq(line, k + 1, Len(line)), Len(line) - k) = b

\* the four bytes of every 16-bit value as SH and, with it, of every 16-bit
\* value as ICG: high byte first, and the two give the value back
pack_RoundTrip ==
    \A v \in 0..65535 :
        LET b == pack_msg(v, 65535 - v)
        IN  /\ \A k \in 1..4 : b[k] \in 0..255
            /\ b[1] * 256 + b[2] = v
            /\ b[3] * 256 + b[4] = 65535 - v

\* C16: the bytes a p command writes are, in this order, the high and low
\* byte of the SH value and the high and low byte of the ICG value, each
\* value being the integer of its token reduced modulo 2^16; no value is
\* rejected for its size; and the success response names exactly the two
\* values the bytes stand for.  The first part takes the integer from the
\* numeral itself; the second takes it from atoi, for every token (for a
\* number that fits no int, one of the results of atoi).
C16_PBytes ==
    /\ []pack_RoundTrip
    /\ [][/\ pc = "switch" /\ bufA[1] = "p" /\ pc' # pc
          /\ TokenCount(Tail(bufA)) >= 2
          /\ IsNumeral(NthToken(Tail(bufA), 1))
          /\ IsNumeral(NthToken(Tail(bufA), 2))
          =>
          LET us_SH  == NumeralValue(NthToken(Tail(bufA), 1)) % 65536
              us_ICG == NumeralValue(NthToken(Tail(bufA), 2)) % 65536
              sent   == bus'[1].bytes
          IN  /\ Len(bus') = 1
              /\ sent = msg_bytes'
              /\ Len(sent) = 4
              /\ \A k \in 1..4 : sent[k] \in 0..255
              /\ sent[1] * 256 + sent[2] = us_SH
              /\ sent[3] * 256 + sent[4] = us_ICG
              /\ (bus'[1].nresult = 4 => IsPReportOf(out'[1], us_SH, us_ICG))]_vars
    /\ [][/\ pc = "switch" /\ bufA[1] = "p" /\ pc' # pc
          /\ TokenCount(Tail(bufA)) >= 2
          =>
          \E a \in atoi(NthToken(Tail(bufA), 1)) : \E b \in atoi(NthToken(Tail(bufA), 2)) :
             LET sent == bus'[1].bytes
             IN  /\ Len(bus') = 1
                 /\ sent = msg_bytes'
                 /\ \A k \in 1..4 : sent[k] \in 0..255
                 /\ \E h \in {a \div 65536} :
                        a = (sent[1] * 256 + sent[2]) + 65536 * h
                 /\ \E h \in {b \div 65536} :
                        b = (sent[3] * 256 + sent[4]) + 65536 * h
                 /\ (bus'[1].nresult = 4 =>
                        IsPReportOf(out'[1], sent[1] * 256 + sent[2],
                                    sent[3] * 256 + sent[4]))]_vars

\* the line p70000,-1 has been answered: 70000 went out as 4464 and -1 as
\* 65535
C16_Witness ==
    /\ pc = "done"
    /\ bufA[1] = "p"
    /\ Len(bus) = 1
    /\ bus[1].bytes = <<17, 112, 255, 255>>
    /\ bus[1].nresult = 4
    /\ out = << <<"p", " ", "4", "4", "6", "4", " ", "6", "5", "5", "3", "5">> >>

\* The reference editing of one character: a backspace removes the last
\* character of the line, if there is one; a carriage return is ignored;
\* another character is appended while fewer than 79 are buffered.
RefChar(buf, c) ==
    IF c = BS THEN (IF buf = <<>> THEN buf ELSE SubSeq(buf, 1, Len(buf) - 1))
    ELSE IF c = CR THEN buf
    ELSE IF Len(buf) < 79 THEN Append(buf, c)
    ELSE buf

\* the reference editing of the characters s[lo..hi], in order, starting
\* from the line buf
RECURSIVE RefFold(_, _, _, _)
RefFold(buf, s, lo, hi) ==
    IF lo > hi THEN buf
    ELSE IF lo = hi THEN RefChar(buf, s[lo])
    ELSE RefFold(RefFold(buf, s, lo, (lo + hi) \div 2), s, ((lo + hi) \div 2) + 1, hi)

\* The reference editing of the characters rest, starting from the line buf:
\* the line as it is at the first NL of rest (or at the end of rest).
RefEdit(buf, rest) ==
    LET n == IF \E k \in 1..Len(rest) : rest[k] = NL
             THEN (CHOOSE k \in 1..Len(rest) :
                        rest[k] = NL /\ \A q \in 1..(k - 1) : rest[q] # NL) - 1
             ELSE Len(rest)
    IN  RefFold(buf, rest, 1, n)

\* the length up to which the reference editing of a whole line is computed
\* in one piece
WholeLine == 8

\* C17: the line getstr delivers is the reference editing of what was typed
\* up to the first NL (a backspace removes the last character, if any; a
\* carriage return is ignored; another character is appended while fewer than
\* 79 are buffered and dropped otherwise), and the count it returns is the
\* length of that line.  getstr starts from the empty line, takes the
\* characters one at a time in the order typed, edits the line for each one
\* as the reference editing does, and returns at the first NL with the line
\* as it is then; for the lines short enough to be edited in one piece, the
\* reference editing of the line so far and the characters to come is the
\* same before and after each character, and is the line delivered.
C17_GetstrEditing ==
    /\ bufA = <<>>
    /\ [][pc = "getstr" /\ inp # <<>> =>
            /\ inp' = Tail(inp)
            /\ IF Head(inp) = NL
               THEN pc' = "main_if" /\ bufA' = bufA /\ m' = Len(bufA)
               ELSE pc' = "getstr" /\ bufA' = RefChar(bufA, Head(inp))
            /\ (Len(inp) <= WholeLine =>
                    /\ RefEdit(bufA', inp') = RefEdit(bufA, inp)
                    /\ (pc' = "main_if" => bufA' = RefEdit(bufA, inp)))]_vars

\* getstr has returned a line of 79 characters whose last one was typed after
\* characters beyond the capacity were dropped and one was taken back
C17_Witness ==
    /\ pc = "main_if"
    /\ Len(bufA) = 79
    /\ bufA[79] = "z"
    /\ bufA[78] = "a"

\* C18: in getstr the index i stays within 0..NBUFA-1; a character is
\* written at an index of at most NBUFA-2 and moves the index by one, which
\* leaves the place of the terminator; the terminator is written at the index
\* i that is returned, inside the buffer; the count returned is between 0
\* and 79 and the line handed to main ends at that index.
C18_GetstrBounds ==
    /\ [](getstr_i \in 0..(NBUFA - 1))
    /\ [][pc = "getstr" /\ Len(bufA') > Len(bufA) =>
            /\ Len(bufA) \in 0..(NBUFA - 2)
            /\ Len(bufA') = Len(bufA) + 1]_vars
    /\ [][pc = "getstr" /\ Len(bufA') < Len(bufA) =>
            /\ Head(inp) = BS
            /\ Len(bufA') = Len(bufA) - 1]_vars
    /\ [][pc = "getstr" /\ pc' = "main_if" =>
            /\ Head(inp) = NL
            /\ bufA' = bufA
            /\ Len(bufA') \in 0..(NBUFA - 1)]_vars
    /\ [](pc = "main_if" => m \in 0..79 /\ m = Len(bufA) /\ m < NBUFA)

\* getstr has returned a full line: 85 letters were typed and 79 are kept
C18_Witness ==
    /\ pc = "main_if"
    /\ m = 79
    /\ bufA = Fill(79)

\* Products and comparisons of the base-10000 numbers
RECURSIVE BigMulSmallC(_, _, _)
BigMulSmallC(a, k, c) ==
    IF a = <<>> THEN (IF c = 0 THEN <<>> ELSE Big(c))
    ELSE With(Head(a) * k + c, LAMBDA x :
            <<x % BigBase>> \o BigMulSmallC(Tail(a), k, x \div BigBase))

\* a times k, for k up to 2^17
BigMulSmall(a, k) == With(a, LAMBDA x : BigNorm(BigMulSmallC(x, k, 0)))

RECURSIVE BigMulFrom(_, _, _)
BigMulFrom(a, b, i) ==
    IF i > Len(b) THEN <<0>>
    ELSE BigAdd(BigMulSmall(a, b[i]), BigNorm(<<0>> \o BigMulFrom(a, b, i + 1)))

BigMul(a, b) == With(a, LAMBDA x : With(b, LAMBDA y : BigMulFrom(x, y, 1)))

RECURSIVE BigPow2(_)
BigPow2(k) ==
    With(k, LAMBDA n : IF n < 13 THEN Big(Pow2(n)) ELSE BigMulSmall(BigPow2(n - 13), Pow2(13)))

RECURSIVE BigLeqFrom(_, _, _)
BigLeqFrom(a, b, i) ==
    IF i = 0 THEN TRUE
    ELSE IF a[i] # b[i] THEN a[i] < b[i]
    ELSE BigLeqFrom(a, b, i - 1)

\* a <= b, both without zero digits at the top
BigLeq(a, b) ==
    With(a, LAMBDA x : With(b, LAMBDA y :
        IF Len(x) # Len(y) THEN Len(x) < Len(y) ELSE BigLeqFrom(x, y, Len(x))))

\* the exact sum of a buffer and N^2 times the exact sum of the squares of
\* the differences from its exact mean
ExactOf(buf) ==
    With(SumRange(buf, 1, N_SAMPLES), LAMBDA total :
        [sum |-> total, dev |-> DevSquares(buf, 1, N_SAMPLES, N_SAMPLES, total)])

ExactCaptured == [buf \in CapturedBuffers |-> ExactOf(buf)]

Exact(buf) == IF buf \in DOMAIN ExactCaptured THEN ExactCaptured[buf] ELSE ExactOf(buf)

\* N^2 * (N - 1)
BesselScale == BigMulSmall(BigMulSmall(Big(N_SAMPLES), N_SAMPLES), N_SAMPLES - 1)

\* the float f is the one nearest to sum/N: |f - sum/N| is at most half a
\* unit of the last place of f
NearestMean(f, sum) ==
    IF f.m = 0 THEN sum = 0
    ELSE /\ f.m > 0 /\ f.e <= 0
         /\ LET fN == BigMulSmall(BigMulSmall(Big(f.m), 2), N_SAMPLES)
                sN == BigMul(Big(2 * sum), BigPow2(0 - f.e))
            IN  /\ BigLeq(fN, BigAdd(sN, Big(N_SAMPLES)))
                /\ BigLeq(sN, BigAdd(fN, Big(N_SAMPLES)))

\* the float f is the one nearest to sqrt(dev / (N^2 * (N - 1))): the exact
\* value lies between f minus and f plus half a unit of its last place
NearestStddev(f, dev) ==
    IF f.m = 0 THEN dev = <<0>>
    ELSE /\ f.m > 0 /\ f.e <= 0
         /\ LET lo == Big(2 * f.m - 1)
                hi == Big(2 * f.m + 1)
                ex == BigMul(dev, BigPow2(2 - 2 * f.e))
            IN  /\ BigLeq(BigMul(BigMul(lo, lo), BesselScale), ex)
                /\ BigLeq(ex, BigMul(BigMul(hi, hi), BesselScale))

\* |f^2 - v| <= v * N / 2^23 for the exact variance v = dev / (N^2 * (N - 1)):
\* N additions, each rounded to 24 bits, separate f^2 from v
StddevWithinTolerance(f, dev) ==
    IF f.m = 0 THEN dev = <<0>>
    ELSE /\ f.m > 0 /\ f.e <= 0
         /\ LET sq == BigMul(BigMul(BigMul(Big(f.m), Big(f.m)), BesselScale), BigPow2(23))
                ex == BigMul(dev, BigPow2(0 - 2 * f.e))
            IN  /\ BigLeq(BigMul(ex, Big(Pow2(23) - N_SAMPLES)), sq)
                /\ BigLeq(sq, BigMul(ex, Big(Pow2(23) + N_SAMPLES)))

\* C19: the statistics that b reports are those of the N samples that the
\* same command has just captured, the mean being complete before the
\* variance pass uses it.  The mean is the single-precision number nearest
\* to (sum of the samples)/N; the square of stddev agrees with
\* sum of (sample - mean)^2 / (N - 1) to within N/2^23 of it.  A buffer of
\* constant value c gives mean = c and stddev = 0 exactly, and the buffer
\* 0, 1, ..., N-1 gives mean = (N-1)/2 exactly.
C19_Statistics ==
    [][pc = "b_capture" /\ pc' = "done" =>
        /\ cap_i = N_SAMPLES
        /\ adc_samples' = adc_samples
        /\ NearestMean(mean', Exact(adc_samples').sum)
        /\ StddevWithinTolerance(stddev', Exact(adc_samples').dev)
        /\ ((\A j \in 1..N_SAMPLES : adc_samples'[j] = adc_samples'[1]) =>
                /\ mean' = f_from_uint(adc_samples'[1])
                /\ stddev' = f_zero)
        /\ ((\A j \in 1..N_SAMPLES : adc_samples'[j] = j - 1) =>
                /\ f_add(mean', mean') = f_from_uint(N_SAMPLES - 1)
                /\ stddev' # f_zero)]_vars

\* C19 as it is stated: mean and stddev are the real numbers sum/N and
\* sqrt(sum of (sample - mean)^2 / (N - 1)), as nearly as a float can hold
\* them.  The stddev that the code computes is further from the real one.
C19_ExactStatistics ==
    [][pc = "b_capture" /\ pc' = "done" =>
        /\ NearestMean(mean', Exact(adc_samples').sum)
        /\ NearestStddev(stddev', Exact(adc_samples').dev)]_vars

\* b has reported on a captured buffer 0, 1, ..., N-1: the mean is 1899.5
C19_Witness ==
    /\ pc = "done"
    /\ bufA # <<>> /\ bufA[1] = "b"
    /\ \A j \in 1..N_SAMPLES : adc_samples[j] = j - 1
    /\ mean = [m |-> 15560704, e |-> 0 - 13]
    /\ stddev # f_zero

\* b has reported on a captured buffer of constant value
C19_WitnessConstant ==
    /\ pc = "done"
    /\ bufA # <<>> /\ bufA[1] = "b"
    /\ \A j \in 1..N_SAMPLES : adc_samples[j] = 2048
    /\ mean = f_from_uint(2048)
    /\ stddev = f_zero

\* b has reported on a buffer that is neither constant nor the ramp (it
\* starts with a result left in the FIFO): the float stddev is within the
\* tolerance of the real one and is not the float nearest to it
C19_WitnessRounded ==
    /\ pc = "done"
    /\ bufA # <<>> /\ bufA[1] = "b"
    /\ adc_samples[1] = 4095 /\ adc_samples[2] = 2048
    /\ StddevWithinTolerance(stddev, Exact(adc_samples).dev)
    /\ ~NearestStddev(stddev, Exact(adc_samples).dev)

\* b has reported on the buffer 4095, 0, 1, ..., N-2 with the stddev that
\* the build with a fused multiply-add gives, which is not that of the
\* build without; both are within the tolerance
C19_WitnessFused ==
    /\ pc = "done"
    /\ bufA # <<>> /\ bufA[1] = "b"
    /\ adc_samples[1] = 4095 /\ adc_samples[2] = 0
    /\ mean = [m |-> 15561342, e |-> 0 - 13]
    /\ stddev = [m |-> 8988716, e |-> 0 - 13]
    /\ stddev \notin { two_passes(adc_samples, 1, FALSE).stddev }
    /\ StddevWithinTolerance(stddev, Exact(adc_samples).dev)

\* C20: after any earlier commands the ADC FIFO is empty when b calls
\* adc_run(true), so each of the N values that b stores is the result of a
\* conversion started after the edge detection (value j of the buffer is
\* conversion j of the free run) and none was left by an earlier command.
\* The code does not keep this: case 'a' converts with the FIFO enabled and
\* leaves its result there, and adc_capture drains the FIFO only after its loop.
C20_FifoEmptyAtCapture ==
    /\ [][pc = "b_wait_high" /\ pc' = "b_capture" => fifo = <<>>]_vars
    /\ [](pc = "done" /\ bufA # <<>> /\ bufA[1] = "b" =>
            \A j \in 1..N_SAMPLES : adc_samples[j] = Sample(signal, j - 1))

\* b has answered, and the first value of its buffer is the result that an
\* earlier a left in the FIFO, not a conversion of the signal
C20_StaleStored ==
    /\ pc = "done"
    /\ bufA # <<>> /\ bufA[1] = "b"
    /\ out # <<>>
    /\ signal = "flat"
    /\ adc_samples[1] = 4095
    /\ adc_samples[2] = Sample("flat", 0)

====
